---- MODULE Spec2Model ----
(***************************************************************************)
(* A model of yasu-a/spice: the expression tree (expression.py), the       *)
(* linear term algebra and its substitution (equation.py), the dense       *)
(* solver (gauss.py) and the netlist formulator with its driver            *)
(* (netlist.py, comcls.py, comins.py, main.py).                            *)
(*                                                                         *)
(* Python floats are modelled as exact extended rationals <<n, d>>:        *)
(* d > 0 is the rational n/d in lowest terms, <<1,0>> and <<-1,0>> are     *)
(* +inf and -inf, <<0,0>> is NaN.  Rounding and signed zeros are not       *)
(* modelled.  A Python call that may raise is modelled by a result record: *)
(* [ok |-> TRUE, val |-> v] for a return, [ok |-> FALSE, err |-> name]     *)
(* for an exception.                                                       *)
(***************************************************************************)
EXTENDS Integers, Sequences, FiniteSets, TLC

VARIABLES
    \* expression.py: the tree under test and the outcomes of the calls on it
    expr, evalOut, simpOut, simpEvalOut,
    \* equation.py: two equation sets, the last call on dst (op), dst as it
    \* was before that call (prev), the exception the call raised, and the
    \* number of calls made
    dst, src, prev, op, raised, calls,
    \* gauss.py: the arguments of solve, its locals and its outcome
    inA, inC, mat, row, repl, sol, pc, out,
    \* netlist.py, main.py: the netlist text, the parsed netlist, the last
    \* call made and its outcome
    file, net, call, ret,
    \* equation.py: the LinearEquation objects by identity (heap), the lists
    \* of references the equation sets are (sets), and the objects as they
    \* were before the call, with the exception the call raised (before)
    heap, sets, before

exprVars == <<expr, evalOut, simpOut, simpEvalOut>>

eqVars == <<dst, src, prev, op, raised, calls>>

gaussVars == <<inA, inC, mat, row, repl, sol, pc, out>>

netVars == <<file, net, call, ret>>

objVars == <<heap, sets, before>>

vars == <<exprVars, eqVars, gaussVars, netVars, objVars>>

\* The value of a variable that holds nothing yet (Python's None).
None == [none |-> TRUE]

\* The value of a variable that records the exception of a call, when the call
\* raised none.
NoException == "no exception"

Ok(v) == [ok |-> TRUE, val |-> v]

Err(e) == [ok |-> FALSE, err |-> e]

(***************************************************************************)
(* Extended rational arithmetic (the float operations the code performs).  *)
(***************************************************************************)
Abs(n) == IF n < 0 THEN -n ELSE n

Sign(n) == IF n < 0 THEN -1 ELSE IF n > 0 THEN 1 ELSE 0

RECURSIVE GCD(_, _)
GCD(a, b) == IF b = 0 THEN a ELSE GCD(b, a % b)

RNorm(n, d) ==
    IF d = 0 THEN <<Sign(n), 0>>
    ELSE LET g == GCD(Abs(n), Abs(d))
             s == IF d < 0 THEN -1 ELSE 1
         IN  <<(s * n) \div g, (s * d) \div g>>

R(n) == <<n, 1>>

RZero == <<0, 1>>

RNaN == <<0, 0>>

IsNaN(r) == r = RNaN

IsInf(r) == r[2] = 0 /\ r[1] # 0

RNeg(a) == <<-a[1], a[2]>>

RAdd(a, b) ==
    IF IsNaN(a) \/ IsNaN(b) THEN RNaN
    ELSE IF IsInf(a) /\ IsInf(b) THEN (IF a = b THEN a ELSE RNaN)
    ELSE IF IsInf(a) THEN a
    ELSE IF IsInf(b) THEN b
    ELSE RNorm(a[1] * b[2] + b[1] * a[2], a[2] * b[2])

RSub(a, b) == RAdd(a, RNeg(b))

RMul(a, b) == RNorm(a[1] * b[1], a[2] * b[2])

\* 1/a without the zero check: 1/0 is inf, 1/inf is 0, 1/NaN is NaN.
RInv(a) == RNorm(a[2], a[1])

\* numpy's float division: x/0 is +-inf, 0/0 and inf/inf are NaN, no exception.
RDiv(a, b) == RMul(a, RInv(b))

(***************************************************************************)
(* expression.py: the expression tree.                                     *)
(***************************************************************************)
Constant(v) == [type |-> "Constant", value |-> v]

Variable(n) == [type |-> "Variable", name |-> n]

VoltageProbe(n) == [type |-> "VoltageProbe", name |-> n]

CurrentProbe(n) == [type |-> "CurrentProbe", name |-> n]

Function(n, as) == [type |-> "Function", name |-> n, args |-> as]

NamedValue(n, e) == [type |-> "NamedValue", var_name |-> n, node |-> e]

OpAdd(x, y) == [type |-> "OpAdd", a |-> x, b |-> y]

OpMul(x, y) == [type |-> "OpMul", a |-> x, b |-> y]

OpUSub(x) == [type |-> "OpUSub", a |-> x]

OpInvert(x) == [type |-> "OpInvert", a |-> x]

POS_ONE == Constant(R(1))

ZERO == Constant(R(0))

NEG_ONE == Constant(R(-1))

BinaryOperators == {"OpAdd", "OpMul"}

UnaryOperators == {"OpUSub", "OpInvert"}

\* type(self)(...) in the simplify methods: a node of the same class.
MakeBinary(t, x, y) == [type |-> t, a |-> x, b |-> y]

MakeUnary(t, x) == [type |-> t, a |-> x]

\* A Python float that is not wrapped in an ExprNode (it has no evaluate and
\* no simplify: calling either raises AttributeError).
Float(v) == [type |-> "float", value |-> v]

\* ExprNode.evaluate and its overrides.  Operands are evaluated left to right
\* and the first exception propagates; 1 / 0.0 raises ZeroDivisionError;
\* a class without an override raises NotImplementedError.
RECURSIVE Evaluate(_)
Evaluate(e) ==
    CASE e.type = "Constant" -> Ok(e.value)
      [] e.type = "OpAdd" ->
            LET ra == Evaluate(e.a) IN
            IF ~ra.ok THEN ra ELSE
            LET rb == Evaluate(e.b) IN
            IF ~rb.ok THEN rb ELSE Ok(RAdd(ra.val, rb.val))
      [] e.type = "OpMul" ->
            LET ra == Evaluate(e.a) IN
            IF ~ra.ok THEN ra ELSE
            LET rb == Evaluate(e.b) IN
            IF ~rb.ok THEN rb ELSE Ok(RMul(ra.val, rb.val))
      [] e.type = "OpUSub" ->
            LET ra == Evaluate(e.a) IN
            IF ~ra.ok THEN ra ELSE Ok(RNeg(ra.val))
      [] e.type = "OpInvert" ->
            LET ra == Evaluate(e.a) IN
            IF ~ra.ok THEN ra
            ELSE IF ra.val = RZero THEN Err("ZeroDivisionError")
            ELSE Ok(RInv(ra.val))
      [] e.type = "NamedValue" -> Evaluate(e.node)
      [] e.type = "float" -> Err("AttributeError")
      [] OTHER -> Err("NotImplementedError")

\* The mutant of FoldOrKeep: the except clause is taken for a node that
\* evaluates, so the unfolded node's children are what is kept, and a folded
\* node loses its operator (the value of its first child is returned).
FoldOrKeepFirstChild(ins) ==
    IF Evaluate(ins).ok THEN Ok(Constant(Evaluate(ins.a).val)) ELSE Ok(ins)

\* What the try statement of simplify yields, ev being the outcome of
\* ins.evaluate().
TryFold(ins, ev) ==
    IF ev.ok THEN Ok(Constant(ev.val))
    ELSE IF ev.err = "NotImplementedError" THEN Ok(ins)
    ELSE ev

\* The tail of both simplify methods:
\*     try: return Constant(ins.evaluate())
\*     except NotImplementedError: return ins
\* Any other exception (ZeroDivisionError) propagates.
FoldOrKeep(ins) == TryFold(ins, Evaluate(ins))

\* The rebuilt node of BinaryOperator.simplify, folded; sa and sb are the
\* outcomes of simplifying the children, and an exception of theirs propagates.
SimplifyBinary(t, sa, sb) ==
    IF ~sa.ok THEN sa ELSE IF ~sb.ok THEN sb
    ELSE FoldOrKeep(MakeBinary(t, sa.val, sb.val))

\* The rebuilt node of UnaryOperator.simplify, folded.
SimplifyUnary(t, sa) == IF ~sa.ok THEN sa ELSE FoldOrKeep(MakeUnary(t, sa.val))

\* BinaryOperator.simplify, UnaryOperator.simplify and ExprNode.simplify: the
\* children are simplified first (a before b), the node is rebuilt from them
\* and folded when it evaluates.  Every other class returns self.
RECURSIVE Simplify(_)
Simplify(e) ==
    IF e.type \in BinaryOperators THEN SimplifyBinary(e.type, Simplify(e.a), Simplify(e.b))
    ELSE IF e.type \in UnaryOperators THEN SimplifyUnary(e.type, Simplify(e.a))
    ELSE IF e.type = "float" THEN Err("AttributeError")
    ELSE Ok(e)

(***************************************************************************)
(* Names.  A str is a sequence of one-character strings; CharOrder lists    *)
(* the characters the netlists use in code-point order.                    *)
(***************************************************************************)
CharOrder ==
    << "(", ")", "*", ".", "0", "1", "2", "6", "=", "E", "I", "R", "V",
       "a", "b", "c", "e", "i", "k", "r", "s", "t", "v" >>

CharCode(c) == CHOOSE i \in DOMAIN CharOrder : CharOrder[i] = c

\* str.lower() on one character
LowerChar(c) ==
    CASE c = "E" -> "e" [] c = "I" -> "i" [] c = "R" -> "r" [] c = "V" -> "v"
      [] OTHER -> c

Lower(str) == [i \in DOMAIN str |-> LowerChar(str[i])]

StartsWith(str, prefix) ==
    /\ Len(prefix) <= Len(str)
    /\ \A i \in DOMAIN prefix : str[i] = prefix[i]

\* str.__lt__: lexicographic by code point
RECURSIVE StrLess(_, _)
StrLess(x, y) ==
    IF Len(y) = 0 THEN FALSE
    ELSE IF Len(x) = 0 THEN TRUE
    ELSE IF x[1] # y[1] THEN CharCode(x[1]) < CharCode(y[1])
    ELSE StrLess(Tail(x), Tail(y))

(***************************************************************************)
(* comcls.py, comins.py, node.py, model.py: classes, instances, nodes.     *)
(***************************************************************************)
\* class CurrentFlow(Enum): the values of its members
CurrentFlowOUT == -1

CurrentFlowIN == 1

\* A producer (g_proc, e_proc, j_proc) is None or one of main's lambdas.
ComponentClass(name, prefix, port_high, port_low, current_flow, g_proc, e_proc, j_proc) ==
    [name |-> name, prefix |-> prefix, port_high |-> port_high, port_low |-> port_low,
     current_flow |-> current_flow, g_proc |-> g_proc, e_proc |-> e_proc, j_proc |-> j_proc]

\* lambda ins: ins.model.expr
LambdaModelExpr == [lambda |-> "ins.model.expr"]

\* lambda ins: ex.OpInvert(ins.model.expr)
LambdaInvertModelExpr == [lambda |-> "ex.OpInvert(ins.model.expr)"]

\* main's class_set
MainClassSet ==
    << ComponentClass("vs", <<"v">>, "pos", "neg", <<CurrentFlowIN, CurrentFlowOUT>>,
                      None, LambdaModelExpr, None),
       ComponentClass("cs", <<"I">>, "pos", "neg", <<CurrentFlowIN, CurrentFlowOUT>>,
                      None, None, LambdaModelExpr),
       ComponentClass("r", <<"r">>, "begin", "end", <<CurrentFlowIN, CurrentFlowOUT>>,
                      LambdaInvertModelExpr, None, None) >>

\* A class set like main's whose resistor class has a float for g_proc, the
\* conductance of every resistor: half a siemens.
ConstantConductanceClassSet ==
    << MainClassSet[1], MainClassSet[2],
       ComponentClass("r", <<"r">>, "begin", "end", <<CurrentFlowIN, CurrentFlowOUT>>,
                      Float(<<1, 2>>), None, None) >>

ClassSets == {MainClassSet, ConstantConductanceClassSet}

ClassPorts(clazz) == <<clazz.port_high, clazz.port_low>>

Node(name) == [name |-> name]

\* The attributes of the ComponentModel named tuple.
ComponentModelFields == {"name", "params"}

ComponentModel(name, params) == [name |-> name, params |-> params]

ComponentInstance(source_line, clazz, name, port_mapping, model) ==
    [source_line |-> source_line, clazz |-> clazz, name |-> name,
     port_mapping |-> port_mapping, model |-> model]

\* ComponentClassSet._find_by_prefix: the first class whose prefix the
\* lower-cased name starts with, or None.
RECURSIVE FindFrom(_, _, _)
FindFrom(classes, name, i) ==
    IF i > Len(classes) THEN None
    ELSE IF StartsWith(Lower(name), Lower(classes[i].prefix)) THEN classes[i]
    ELSE FindFrom(classes, name, i + 1)

FindByPrefix(classes, name, force_prefix) ==
    FindFrom(classes, IF force_prefix # None THEN force_prefix ELSE name, 1)

\* The digits and the unit suffixes of _MEASUREMENT_UNITS that the netlists use.
DigitValue(c) ==
    CASE c = "0" -> 0 [] c = "1" -> 1 [] c = "2" -> 2 [] c = "6" -> 6

MeasurementUnit(c) == CASE c = "k" -> R(1000)

IsDigit(c) == c \in {"0", "1", "2", "6"}

\* expression.parse (after _normalize) on the value texts the netlists use:
\* a one-digit number with an optional unit suffix becomes the Constant of
\* float(number) * unit; "vs=2*V(b)" becomes the NamedValue of a product
\* with a VoltageProbe.
ExpressionParse(text) ==
    IF Len(text) = 1 /\ IsDigit(text[1]) THEN Constant(R(DigitValue(text[1])))
    ELSE IF Len(text) = 2 /\ IsDigit(text[1]) /\ text[2] = "k"
        THEN Constant(RMul(R(DigitValue(text[1])), MeasurementUnit(text[2])))
    ELSE IF text = <<"v", "s", "=", "2", "*", "V", "(", "b", ")">>
        THEN NamedValue("vs", OpMul(Constant(R(2)), VoltageProbe("b")))
    ELSE Variable(text)

\* ComponentClassSet._parse_model: a tree that evaluates is replaced by its
\* float.
ParseModel(model_str) ==
    LET node == ExpressionParse(model_str)
        ev   == Evaluate(node)
    IN  IF ev.ok THEN Ok(Float(ev.val))
        ELSE IF ev.err = "NotImplementedError" THEN Ok(node)
        ELSE ev

\* ComponentClassSet.parse_netlist_line.  A line is the sequence of its
\* whitespace-separated tokens: name, *ports, model_str.
ParseNetlistLine(classes, line, force_prefix, force_model) ==
    IF Len(line) < 2 THEN Err("ValueError")
    ELSE
    LET name  == line[1]
        ports == SubSeq(line, 2, Len(line) - 1)
        clazz == FindByPrefix(classes, name, force_prefix)
    IN  IF clazz # None /\ Len(ports) # Len(ClassPorts(clazz)) THEN Err("AssertionError")
        ELSE
        LET value == IF force_model # None THEN Ok(force_model)
                     ELSE ParseModel(line[Len(line)])
        IN  IF ~value.ok THEN value
            ELSE Ok(ComponentInstance(
                     line, clazz, name,
                     [i \in DOMAIN ports |-> Node(ports[i])],
                     IF force_model # None THEN force_model
                     ELSE ComponentModel("const", [value |-> value.val])))

(***************************************************************************)
(* equation.py: variables, LinearTerm, LinearTerms, LinearEquation and     *)
(* LinearEquationSet.  A LinearTerms is the sequence of its terms, an      *)
(* equation the record of its two sides, an equation set the sequence of   *)
(* its equations.                                                          *)
(***************************************************************************)
VAR_CONST == [kind |-> "ConstVariable"]

Edge(component) == [component |-> component]

EdgeCurrent(edge) == [kind |-> "EdgeCurrent", edge |-> edge]

EdgeVoltage(edge) == [kind |-> "EdgeVoltage", edge |-> edge]

NodePotential(node) == [kind |-> "NodePotential", node |-> node]

LinearTerm(k, element) == [k |-> k, element |-> element]

\* Variable.term
Term(element, k) == LinearTerm(IF k = None THEN POS_ONE ELSE k, element)

LinearTermConst(k) == LinearTerm(k, VAR_CONST)

IsConst(term) == term.element = VAR_CONST

LinearEquation(left, right) == [left |-> left, right |-> right]

\* LinearTerm.__neg__: k = -self.k builds OpUSub(k) and does not simplify it
\* (a bare float is negated as a float).
LinearTermNeg(term) ==
    LinearTerm(IF term.k.type = "float" THEN Float(RNeg(term.k.value)) ELSE OpUSub(term.k),
               term.element)

\* A call that returns value v unless the call that produced r raised.
Returning(r, v) == IF r.ok THEN Ok(v) ELSE r

\* A list built element by element: h is the outcome for the first element,
\* t for the rest; the first exception propagates.
ConsOk(h, t) == IF ~h.ok THEN h ELSE IF ~t.ok THEN t ELSE Ok(<<h.val>> \o t.val)

\* LinearTerm(k=..., element=...) for the outcome k of the simplify call
TermOfK(k, element) == IF k.ok THEN Ok(LinearTerm(k.val, element)) ELSE k

\* isinstance(other, float): other = ex.Constant(other)
AsExprNode(other) == IF other.type = "float" THEN Constant(other.value) ELSE other

\* LinearTerm.__mul__: k = OpMul(other, self.k).simplify()
LinearTermMul(term, other) ==
    TermOfK(Simplify(OpMul(AsExprNode(other), term.k)), term.element)

\* LinearTerms.__neg__
LinearTermsNeg(terms) == [i \in DOMAIN terms |-> LinearTermNeg(terms[i])]

\* LinearTerms.__add__
LinearTermsAdd(terms, other) == terms \o other

\* LinearTerms.__sub__
LinearTermsSub(terms, other) == terms \o LinearTermsNeg(other)

\* LinearTerms.__mul__: term * other for each term in order; the first
\* exception propagates.
RECURSIVE LinearTermsMul(_, _)
LinearTermsMul(terms, other) ==
    IF Len(terms) = 0 THEN Ok(<<>>)
    ELSE ConsOk(LinearTermMul(Head(terms), other), LinearTermsMul(Tail(terms), other))

\* LinearTerms.sum
RECURSIVE LinearTermsSum(_)
LinearTermsSum(items) ==
    IF Len(items) = 0 THEN <<>> ELSE Head(items) \o LinearTermsSum(Tail(items))

\* The mutant of LinearTermsSplit: a constant term is put on both sides.
LinearTermsSplitKeepsConst(terms) ==
    [var_side |-> terms, const_side |-> SelectSeq(terms, IsConst)]

\* LinearTerms.split_vars_and_const
LinearTermsSplit(terms) ==
    [var_side |-> SelectSeq(terms, LAMBDA t : ~IsConst(t)),
     const_side |-> SelectSeq(terms, IsConst)]

\* LinearEquation.from_left_and_right(left=left_vars - right_vars,
\*                                    right=-left_consts + right_consts)
SplitFromSides(l, r) ==
    LinearEquation(LinearTermsSub(l.var_side, r.var_side),
                   LinearTermsAdd(LinearTermsNeg(l.const_side), r.const_side))

\* LinearEquation.split_vars_and_const
SplitVarsAndConst(eq) == SplitFromSides(LinearTermsSplit(eq.left), LinearTermsSplit(eq.right))

\* The item (left variable, right formula) of an equation
FormulaItem(var, f) == IF f.ok THEN Ok([var |-> var, formula |-> f.val]) ELSE f

\* LinearEquation.var_to_formula: (left variable, right * OpInvert(left k))
VarToFormula(eq) ==
    IF Len(eq.left) # 1 THEN Err("ValueError")
    ELSE FormulaItem(eq.left[1].element, LinearTermsMul(eq.right, OpInvert(eq.left[1].k)))

\* LinearEquationSet.var_to_formula: dict(map(LinearEquation.var_to_formula, self)),
\* kept as the sequence of the items in insertion order.
RECURSIVE SetVarToFormula(_)
SetVarToFormula(eqs) ==
    IF Len(eqs) = 0 THEN Ok(<<>>)
    ELSE ConsOk(VarToFormula(Head(eqs)), SetVarToFormula(Tail(eqs)))

\* The index of the item a dict keeps for a key: a later item with the same
\* key has replaced an earlier one (0: no item).
DictIndex(items, key) ==
    IF \A i \in DOMAIN items : items[i].var # key THEN 0
    ELSE CHOOSE i \in DOMAIN items :
            /\ items[i].var = key
            /\ \A j \in DOMAIN items : items[j].var = key => j <= i

\* dict.get
DictGet(items, key) ==
    IF DictIndex(items, key) = 0 THEN None ELSE Ok(items[DictIndex(items, key)].formula)

\* for src_eq in src_eqs: if len(src_eq.left.__terms) != 1: raise ValueError
AllSingleLeft(src_eqs) == \A i \in DOMAIN src_eqs : Len(src_eqs[i].left) = 1

\* new_terms of one term of dst: var_assignment * dst_term.k when the dict
\* holds its element (a LinearTerms object is truthy also when it has no
\* terms), the term itself otherwise.
NewTerms(dst_term, var_assignment) ==
    IF var_assignment # None THEN LinearTermsMul(var_assignment.val, dst_term.k)
    ELSE Ok(<<dst_term>>)

\* The loop of LinearTerms.__lshift__ over the terms of dst; the first
\* exception propagates.
RECURSIVE AssignTerms(_, _)
AssignTerms(dst_terms, var_to_formula) ==
    IF Len(dst_terms) = 0 THEN Ok(<<>>)
    ELSE ConsOk(NewTerms(Head(dst_terms), DictGet(var_to_formula, Head(dst_terms).element)),
                AssignTerms(Tail(dst_terms), var_to_formula))

\* return LinearTerms.sum(result)
SumOf(result) == IF result.ok THEN Ok(LinearTermsSum(result.val)) ELSE result

\* The body of LinearTerms.__lshift__ after the shape check, var_to_formula
\* being the outcome of src_eqs.var_to_formula().
Assigned(dst_terms, var_to_formula) ==
    IF ~var_to_formula.ok THEN var_to_formula
    ELSE SumOf(AssignTerms(dst_terms, var_to_formula.val))

\* Assigned, applied once more to its result.
AssignedAgain(first, var_to_formula) ==
    IF ~first.ok THEN first ELSE Assigned(first.val, var_to_formula)

\* The mutant of LinearTermsLshift (a fixpoint-style substitution): the terms
\* a replacement introduced are substituted once more in the same call.
LinearTermsLshiftAgain(dst_terms, src_eqs) ==
    IF ~AllSingleLeft(src_eqs) THEN Err("ValueError")
    ELSE AssignedAgain(Assigned(dst_terms, SetVarToFormula(src_eqs)), SetVarToFormula(src_eqs))

\* The terms of dst whose element is the left variable of an equation of src.
Replaced(dst_terms, src_eqs) ==
    SelectSeq(dst_terms, LAMBDA t : \E i \in DOMAIN src_eqs :
                                        src_eqs[i].left[1].element = t.element)

\* The mutant of LinearTermsLshift: a term with no assignment is dropped.
LinearTermsLshiftDropsKept(dst_terms, src_eqs) ==
    IF ~AllSingleLeft(src_eqs) THEN Err("ValueError")
    ELSE Assigned(Replaced(dst_terms, src_eqs), SetVarToFormula(src_eqs))

\* The mutant of LinearTermsLshift: the shape of src is checked only when a
\* term of dst is about to be replaced.
LinearTermsLshiftLazyCheck(dst_terms, src_eqs) ==
    IF \A i \in DOMAIN src_eqs : \A j \in DOMAIN dst_terms :
          Len(src_eqs[i].left) = 0 \/ dst_terms[j].element # src_eqs[i].left[1].element
    THEN Ok(dst_terms)
    ELSE IF ~AllSingleLeft(src_eqs) THEN Err("ValueError")
    ELSE Assigned(dst_terms, SetVarToFormula(src_eqs))

\* LinearTerms.__lshift__ (other is a LinearEquationSet)
LinearTermsLshift(dst_terms, src_eqs) ==
    IF ~AllSingleLeft(src_eqs) THEN Err("ValueError")
    ELSE Assigned(dst_terms, SetVarToFormula(src_eqs))

\* The equation after  self.right = r  where r is the outcome of the first
\* << of LinearEquation.__ilshift__, with the exception it raised.
RightAssigned(eq, r) ==
    IF ~r.ok THEN [eq |-> eq, raised |-> r.err]
    ELSE [eq |-> LinearEquation(eq.left, r.val), raised |-> NoException]

\* The equation after  self.left = l  as well, l being the outcome of the
\* second <<; an exception there leaves self.right assigned.
LeftAssigned(eq, r, l) ==
    IF ~r.ok THEN [eq |-> eq, raised |-> r.err]
    ELSE IF ~l.ok THEN [eq |-> LinearEquation(eq.left, r.val), raised |-> l.err]
    ELSE [eq |-> LinearEquation(l.val, r.val), raised |-> NoException]

\* The mutant of LinearEquationIlshift: only the right side is substituted
\* (as netlist.py's older LinearEquation.__ilshift__ does).
LinearEquationIlshiftRightOnly(eq, other) ==
    RightAssigned(eq, LinearTermsLshift(eq.right, other))

\* LinearEquation.__ilshift__: self.right, then self.left, are assigned in
\* place.
LinearEquationIlshift(eq, other) ==
    LeftAssigned(eq, LinearTermsLshift(eq.right, other), LinearTermsLshift(eq.left, other))

\* The set after its first item was shifted (item) and the rest was (rest):
\* an exception ends the loop and leaves the later items as they were.
ItemsShifted(self, item, rest) ==
    IF item.raised # NoException
    THEN [set |-> <<item.eq>> \o Tail(self), raised |-> item.raised]
    ELSE [set |-> <<item.eq>> \o rest.set, raised |-> rest.raised]

\* LinearEquationSet.__ilshift__: for item in self: item <<= other.  The
\* equations are changed in place one after the other.
RECURSIVE LinearEquationSetIlshift(_, _)
LinearEquationSetIlshift(self, other) ==
    IF Len(self) = 0 THEN [set |-> <<>>, raised |-> NoException]
    ELSE ItemsShifted(self, LinearEquationIlshift(Head(self), other),
                      LinearEquationSetIlshift(Tail(self), other))

\* The equations a list of references holds: objects is the LinearEquation
\* objects by identity, refs the references of a LinearEquationSet in order.
Deref(objects, refs) == [i \in DOMAIN refs |-> objects[refs[i]]]

\* The objects after  self.right = self.right << other  on the object id,
\* r being the outcome of the <<: an exception leaves the object as it was.
ObjRightAssigned(objects, id, r) ==
    IF r.ok THEN [objects EXCEPT ![id] = LinearEquation(objects[id].left, r.val)]
    ELSE objects

\* The objects after  self.left = self.left << other  as well, l being the
\* outcome of that <<, with the exception the statement raised.
ObjLeftAssigned(shifted, id, r, l) ==
    IF ~r.ok THEN [heap |-> shifted, raised |-> r.err]
    ELSE IF ~l.ok THEN [heap |-> shifted, raised |-> l.err]
    ELSE [heap |-> [shifted EXCEPT ![id] = LinearEquation(l.val, shifted[id].right)],
          raised |-> NoException]

\* The second << reads other again: its equations are the objects as the
\* first assignment left them.
ObjLeftShifted(shifted, id, other_refs, r) ==
    ObjLeftAssigned(shifted, id, r,
                    LinearTermsLshift(shifted[id].left, Deref(shifted, other_refs)))

ObjRightShifted(objects, id, other_refs, r) ==
    ObjLeftShifted(ObjRightAssigned(objects, id, r), id, other_refs, r)

\* LinearEquation.__ilshift__ on the object id: the two sides of the object
\* are assigned, the object stays the same object (return self).
ObjIlshift(objects, id, other_refs) ==
    ObjRightShifted(objects, id, other_refs,
                    LinearTermsLshift(objects[id].right, Deref(objects, other_refs)))

\* for item in self: item <<= other, over the references of self: every
\* item is shifted in the objects the earlier items left; an exception ends
\* the loop.
RECURSIVE ObjLoop(_, _, _)
ObjRest(item, rest_refs, other_refs) ==
    IF item.raised # NoException THEN item
    ELSE ObjLoop(item.heap, rest_refs, other_refs)

ObjLoop(objects, self_refs, other_refs) ==
    IF Len(self_refs) = 0 THEN [heap |-> objects, raised |-> NoException]
    ELSE ObjRest(ObjIlshift(objects, Head(self_refs), other_refs),
                 Tail(self_refs), other_refs)

\* The mutant of ObjSetIlshift: the items of other are shifted as well.
ObjSetIlshiftOfBoth(objects, self_refs, other_refs) ==
    ObjLoop(objects, self_refs \o other_refs, other_refs)

\* LinearEquationSet.__ilshift__ on sets of references: the loop runs over
\* the items of self, and self is returned.
ObjSetIlshift(objects, self_refs, other_refs) ==
    ObjLoop(objects, self_refs, other_refs)

\* LinearEquationSet.split_vars_and_const: self[i] = item.split_vars_and_const()
LinearEquationSetSplit(self) == [i \in DOMAIN self |-> SplitVarsAndConst(self[i])]

(***************************************************************************)
(* gauss.py: solve.  A matrix is the sequence of its rows, a row the       *)
(* sequence of its entries; rows and columns are counted from 1 (numpy     *)
(* counts from 0).  numpy's float division raises nothing: x/0 is inf or   *)
(* NaN.                                                                    *)
(***************************************************************************)
\* np.concatenate([A, c], axis=1)
Concatenate(A, c) == [r \in DOMAIN A |-> A[r] \o c[r]]

\* np.zeros(len(A))
Zeros(len) == [k \in 1..len |-> RZero]

\* np.all(np.tril(M[:, :-1])[~I] == 0): every entry below the diagonal of
\* the coefficient block is zero (NaN == 0 is false).
LowerTriangleIsZero(M) ==
    \A r \in DOMAIN M : \A k \in DOMAIN M : k < r => M[r][k] = RZero

\* idx[(M[:, i] != 0) & (idx > i)]
RowsToSwapWith(M, i) == {j \in DOMAIN M : j > i /\ M[j][i] # RZero}

\* ...[0]: the first of them
FirstRow(rows) == CHOOSE j \in rows : \A k \in rows : j <= k

\* M[i, :], M[j, :] = M[j, :], M[i, :].  The right-hand sides are views of
\* M, not copies: row i is overwritten with row j, and row j is then
\* assigned from the view of row i, which already holds row j.
SwapRows(M, i, j) == [r \in DOMAIN M |-> IF r = i \/ r = j THEN M[j] ELSE M[r]]

\* The row operation without the mask idx <= i: every row is reduced.
EliminateEveryRow(M, i) ==
    [r \in DOMAIN M |->
        [k \in DOMAIN M[r] |-> RSub(M[r][k], RMul(RDiv(M[i][k], M[i][i]), M[r][i]))]]

\* The mutant of Eliminate: the pivot row is not divided by the pivot.
EliminateWithoutDivision(M, i) ==
    [r \in DOMAIN M |->
        [k \in DOMAIN M[r] |->
            RSub(M[r][k], RMul(M[i][k], IF r <= i THEN RZero ELSE M[r][i]))]]

\* M -= M[i] / M[i, i] * np.where(idx <= i, 0, M[:, i])[:, None]
Eliminate(M, i) ==
    [r \in DOMAIN M |->
        [k \in DOMAIN M[r] |->
            RSub(M[r][k], RMul(RDiv(M[i][k], M[i][i]),
                               IF r <= i THEN RZero ELSE M[r][i]))]]

\* np.dot(x, v) over the first len entries
RECURSIVE Dot(_, _, _)
Dot(x, v, len) == IF len = 0 THEN RZero ELSE RAdd(Dot(x, v, len - 1), RMul(x[len], v[len]))

\* if np.isnan(x[i]): x[i] = 1
NanToOne(v) == IF IsNaN(v) THEN R(1) ELSE v

\* The backward value without the NaN test
BackwardValueKeepsNaN(M, x, i) ==
    RDiv(RSub(M[i][Len(M) + 1], Dot(x, M[i], Len(M))), M[i][i])

\* x[i] = (M[i, -1] - np.dot(x, M[i, :-1])) / M[i, i], then the NaN test
BackwardValue(M, x, i) ==
    NanToOne(RDiv(RSub(M[i][Len(M) + 1], Dot(x, M[i], Len(M))), M[i][i]))

\* x[i], x[j] = x[j], x[i]: the right-hand sides are scalars, the entries
\* are exchanged.
SwapEntries(x, pair) ==
    [k \in DOMAIN x |-> IF k = pair[1] THEN x[pair[2]]
                        ELSE IF k = pair[2] THEN x[pair[1]] ELSE x[k]]

(***************************************************************************)
(* netlist.py: the formulator.  netlist.py holds its own copies of the     *)
(* variable, term and equation classes; they differ from equation.py in    *)
(* << (the right side of a source equation is not divided by its left      *)
(* coefficient) and in <<= (only the right side is substituted).           *)
(***************************************************************************)
NetList(title, components, commands) ==
    [title |-> title, components |-> components, commands |-> commands]

\* The attributes of a NetList: its fields, properties and methods.
NetListAttributes ==
    {"title", "components", "commands", "from_string", "edges", "nodes",
     "ports_with_node", "ohms_law", "kcl", "kvl",
     "node_potential_substituted_ohms_law", "substituted_kcl",
     "expressions_for_voltage", "expressions_for_potential",
     "expressions_for_current", "_parse_variable_to_expr", "total_equations",
     "node_potential_substituted_ohms_law_equations"}

\* The attributes of a list that the formulator asks for.
ListAttributes == {"append", "index", "__iter__", "__getitem__"}

\* line.startswith(c) for a line given as its tokens
LineStartsWith(line, c) == Len(line) > 0 /\ Len(line[1]) > 0 /\ line[1][1] = c

\* The loop of from_string over the lines: what one line adds to components.
ComponentsOfLine(classes, line, line_no) ==
    IF Len(line) = 0 \/ line_no = 1 \/ LineStartsWith(line, "*") \/ LineStartsWith(line, ".")
    THEN Ok(<<>>)
    ELSE ConsOk(ParseNetlistLine(classes, line, None, None), Ok(<<>>))

\* Two parts of a list, the first exception propagating.
ConcatOk(h, t) == IF ~h.ok THEN h ELSE IF ~t.ok THEN t ELSE Ok(h.val \o t.val)

RECURSIVE ParseLines(_, _, _)
ParseLines(classes, lines, line_no) ==
    IF Len(lines) = 0 THEN Ok(<<>>)
    ELSE ConcatOk(ComponentsOfLine(classes, Head(lines), line_no),
                  ParseLines(classes, Tail(lines), line_no + 1))

\* The re-parse loop of from_string: com.model.expr is read for the first
\* component that has no class, and a ComponentModel has no such attribute.
Reparse(source, components) ==
    IF ~components.ok THEN components
    ELSE IF \E k \in DOMAIN components.val : components.val[k].clazz = None
         /\ "expr" \notin ComponentModelFields
    THEN Err("AttributeError")
    ELSE Ok(NetList(IF Len(source) > 0 /\ Len(source[1]) > 0 THEN source[1] ELSE None,
                    components.val, <<>>))

\* NetList.from_string.  source is the sequence of its lines.
FromString(source, class_set) == Reparse(source, ParseLines(class_set, source, 1))

\* sorted(...) of objects compared by name: a stable insertion of item
\* after the items that are not greater.
RECURSIVE Insort(_, _)
Insort(sorted, item) ==
    IF Len(sorted) = 0 THEN <<item>>
    ELSE IF StrLess(item.name, sorted[Len(sorted)].name)
         THEN Append(Insort(SubSeq(sorted, 1, Len(sorted) - 1), item), sorted[Len(sorted)])
         ELSE Append(sorted, item)

RECURSIVE SortedByName(_)
SortedByName(items) ==
    IF Len(items) = 0 THEN <<>>
    ELSE Insort(SortedByName(SubSeq(items, 1, Len(items) - 1)), items[Len(items)])

\* NetList.edges: sorted(Edge(com) for com in self.components); Edge.__lt__
\* compares the component names.
Edges(netlist) ==
    [k \in DOMAIN netlist.components |->
        Edge(SortedByName(netlist.components)[k])]

\* NetList.nodes: sorted({node for com in self.components for node in com.nodes})
RECURSIVE SortedSetByName(_)
SortedSetByName(items) ==
    IF items = {} THEN <<>>
    ELSE LET least == CHOOSE a \in items : \A b \in items : ~StrLess(b.name, a.name)
         IN  <<least>> \o SortedSetByName(items \ {least})

Nodes(netlist) ==
    SortedSetByName(UNION {{netlist.components[k].port_mapping[p] :
                               p \in DOMAIN netlist.components[k].port_mapping} :
                           k \in DOMAIN netlist.components})

\* ComponentInstance.list_node_and_port
NodePortPair(component, node, port_name) ==
    [component |-> component, node |-> node, port_name |-> port_name]

ListNodeAndPort(component) ==
    [p \in DOMAIN component.port_mapping |->
        NodePortPair(component, component.port_mapping[p], ClassPorts(component.clazz)[p])]

\* NetList.ports_with_node
RECURSIVE PortsWithNode(_, _)
PortsWithNode(components, node) ==
    IF Len(components) = 0 THEN <<>>
    ELSE SelectSeq(ListNodeAndPort(Head(components)), LAMBDA nnp : nnp.node = node)
         \o PortsWithNode(Tail(components), node)

\* current_flow that answers with the direction of the first port
CurrentFlowOfFirstPort(component, port_name) == component.clazz.current_flow[1]

\* ComponentInstance.current_flow
CurrentFlowOf(component, port_name) ==
    component.clazz.current_flow[
        CHOOSE p \in DOMAIN ClassPorts(component.clazz) :
            ClassPorts(component.clazz)[p] = port_name]

\* A producer of main applied to an instance: both lambdas read
\* ins.model.expr.
ApplyProc(proc, ins) ==
    IF "expr" \notin ComponentModelFields THEN Err("AttributeError")
    ELSE IF proc = LambdaInvertModelExpr THEN Ok(OpInvert(ins.model.expr))
    ELSE Ok(ins.model.expr)

\* ComponentClass.calculate_conductance via ComponentInstance.conductance:
\* float('nan'), not None, when the class has no g_proc; g_proc itself when
\* it is a float.
Conductance(ins) ==
    IF ins.clazz.g_proc = None THEN Ok(Float(RNaN))
    ELSE IF "type" \in DOMAIN ins.clazz.g_proc THEN Ok(ins.clazz.g_proc)
    ELSE ApplyProc(ins.clazz.g_proc, ins)

\* The equations of ohms_law for one edge: the filter
\* "edge.component.conductance is not None" passes every value conductance
\* returns.
OhmOfEdge(edge, conductance) ==
    IF ~conductance.ok THEN conductance
    ELSE IF conductance.val = None THEN Ok(<<>>)
    ELSE Ok(<<LinearEquation(<<Term(EdgeCurrent(edge), None)>>,
                             <<Term(EdgeVoltage(edge), conductance.val)>>)>>)

RECURSIVE OhmOfEdges(_)
OhmOfEdges(edges) ==
    IF Len(edges) = 0 THEN Ok(<<>>)
    ELSE ConcatOk(OhmOfEdge(Head(edges), Conductance(Head(edges).component)),
                  OhmOfEdges(Tail(edges)))

\* NetList.ohms_law
OhmsLaw(netlist) == OhmOfEdges(Edges(netlist))

\* The equation of kcl for one node
KclOfPorts(nnp_with_node) ==
    LinearEquation(
        [p \in DOMAIN nnp_with_node |->
            Term(EdgeCurrent(Edge(nnp_with_node[p].component)),
                 Constant(R(CurrentFlowOf(nnp_with_node[p].component,
                                          nnp_with_node[p].port_name))))],
        <<>>)

\* NetList.kcl
KclOfNodes(netlist, nodes) ==
    [k \in DOMAIN nodes |-> KclOfPorts(PortsWithNode(netlist.components, nodes[k]))]

Kcl(netlist) == KclOfNodes(netlist, Nodes(netlist))

\* kvl with the two nodes taken in the other order
KvlOfEdgeLowFirst(edge) ==
    LinearEquation(<<Term(EdgeVoltage(edge), None)>>,
                   <<Term(NodePotential(edge.component.port_mapping[2]), POS_ONE),
                     Term(NodePotential(edge.component.port_mapping[1]), NEG_ONE)>>)

\* NetList.kvl: port_to_node zips clazz.ports with port_mapping, so the
\* first node is the one of port_high
KvlOfEdge(edge) ==
    LinearEquation(<<Term(EdgeVoltage(edge), None)>>,
                   <<Term(NodePotential(edge.component.port_mapping[1]), POS_ONE),
                     Term(NodePotential(edge.component.port_mapping[2]), NEG_ONE)>>)

KvlOfEdges(edges) == [k \in DOMAIN edges |-> KvlOfEdge(edges[k])]

Kvl(netlist) == KvlOfEdges(Edges(netlist))

\* ComponentClass.calculate_constant_voltage via
\* ComponentInstance.constant_voltage: float('nan'), not None, when the class
\* has no e_proc.
ConstantVoltage(ins) ==
    IF ins.clazz.e_proc = None THEN Ok(Float(RNaN)) ELSE ApplyProc(ins.clazz.e_proc, ins)

\* dct[key] = value on a dict kept as the sequence of its items in insertion
\* order: a key the dict holds keeps its place.
DictSet(items, key, value) ==
    IF DictIndex(items, key) = 0 THEN Append(items, [var |-> key, formula |-> value])
    ELSE [items EXCEPT ![DictIndex(items, key)] = [var |-> key, formula |-> value]]

\* The loop of expressions_for_voltage from the edges left to visit and the
\* dict so far: the filter "constant_voltage is None" passes every value
\* constant_voltage returns.
RECURSIVE VoltagesFrom(_, _)
RECURSIVE VoltageSet(_, _, _)
VoltageSet(edges, dct, constant_voltage) ==
    IF ~constant_voltage.ok THEN constant_voltage
    ELSE IF constant_voltage.val = None THEN VoltagesFrom(Tail(edges), dct)
    ELSE VoltagesFrom(Tail(edges),
                      DictSet(dct, EdgeVoltage(Head(edges)), constant_voltage.val))

VoltagesFrom(edges, dct) ==
    IF Len(edges) = 0 THEN Ok(dct)
    ELSE VoltageSet(edges, dct, ConstantVoltage(Head(edges).component))

\* NetList.expressions_for_voltage
ExpressionsForVoltage(netlist) == VoltagesFrom(Edges(netlist), <<>>)

\* The entry expressions_for_potential adds last, under the key None:
\* ([(NodePotential(Node('0')), ex.POS_ONE)], ex.ZERO)
GroundConstraint ==
    [terms |-> <<[node_potential |-> NodePotential(Node(<<"0">>)), sign |-> POS_ONE]>>,
     expr |-> ZERO]

\* The loop of expressions_for_potential and the entry after it: the loop
\* indexes the list kvl() returned with the first key of expr_vol, an
\* EdgeVoltage.
PotentialsOf(expr_vol, kvl) ==
    IF ~expr_vol.ok THEN expr_vol
    ELSE IF Len(expr_vol.val) > 0 /\ "kind" \in DOMAIN expr_vol.val[1].var
        THEN Err("TypeError")
    ELSE Ok(DictSet(expr_vol.val, None, GroundConstraint))

\* NetList.expressions_for_potential
ExpressionsForPotential(netlist) == PotentialsOf(ExpressionsForVoltage(netlist), Kvl(netlist))

\* terms_lut of netlist.py's LinearTerms.__lshift__: left variable -> right
\* side as it is.
TermsLut(src_eqs) ==
    [k \in DOMAIN src_eqs |-> [var |-> src_eqs[k].left[1].element,
                               formula |-> src_eqs[k].right]]

\* netlist.py's LinearTerms.__lshift__
NetLinearTermsLshift(dst_terms, src_eqs) ==
    IF ~AllSingleLeft(src_eqs) THEN Err("ValueError")
    ELSE Assigned(dst_terms, Ok(TermsLut(src_eqs)))

\* netlist.py's LinearEquation.__ilshift__: self.right = self.right << other
NetLinearEquationIlshift(eq, other) == RightAssigned(eq, NetLinearTermsLshift(eq.right, other))

\* for ohm_eq in ohm: ohm_eq <<= kvl
RECURSIVE NetIlshiftAll(_, _)
NetIlshiftAll(eqs, other) ==
    IF Len(eqs) = 0 THEN [set |-> <<>>, raised |-> NoException]
    ELSE ItemsShifted(eqs, NetLinearEquationIlshift(Head(eqs), other),
                      NetIlshiftAll(Tail(eqs), other))

\* The list a loop changed in place, or the exception that ended the loop.
Looped(shifted) == IF shifted.raised # NoException THEN Err(shifted.raised) ELSE Ok(shifted.set)

OhmShifted(ohm, kvl) == IF ~ohm.ok THEN ohm ELSE Looped(NetIlshiftAll(ohm.val, kvl))

\* NetList.node_potential_substituted_ohms_law
NodePotentialSubstitutedOhmsLaw(netlist) == OhmShifted(OhmsLaw(netlist), Kvl(netlist))

\* kcl.items() where kcl() returned a list
KclItems(ohm, kcl) ==
    IF ~ohm.ok THEN ohm
    ELSE IF "items" \notin ListAttributes THEN Err("AttributeError")
    ELSE Ok(kcl)

\* NetList.substituted_kcl, up to the call of kcl.items()
SubstitutedKcl(netlist) == KclItems(NodePotentialSubstitutedOhmsLaw(netlist), Kcl(netlist))

\* The dict of total_equations after its first loop and popitem(): one
\* entry per item of substituted_kcl but the last.
KclRows(kcl) == IF ~kcl.ok THEN kcl ELSE Ok(SubSeq(kcl.val, 1, Len(kcl.val) - 1))

\* NetList.total_equations, up to the call of self.substituted_kcl().items()
TotalEquations(netlist) == KclRows(SubstitutedKcl(netlist))

\* NetList.node_potential_substituted_ohms_law_equations, up to the call of
\* ohm.items() where node_potential_substituted_ohms_law() returned a list
OhmItems(ohm) ==
    IF ~ohm.ok THEN ohm
    ELSE IF "items" \notin ListAttributes THEN Err("AttributeError")
    ELSE Ok(ohm.val)

NodePotentialSubstitutedOhmsLawEquations(netlist) ==
    OhmItems(NodePotentialSubstitutedOhmsLaw(netlist))

\* NetList._parse_variable_to_expr: the Variable it returns and records;
\* a name is the sequence of its characters.
ParseVariableToExpr(variable) ==
    IF variable.kind = "EdgeCurrent"
        THEN Variable(<<"x", "_", "_", "i", "_">> \o Lower(variable.edge.component.name))
    ELSE Variable(<<"x", "_", "_", "e", "_">> \o Lower(variable.node.name))

\* EdgeVariable.name, NodeVariable.name
NameOf(variable) ==
    IF "edge" \in DOMAIN variable THEN variable.edge.component.name ELSE variable.node.name

\* for k, v in table.items(): if type(k).__name__.startswith(prefix) and
\* k.name == name: the place of the first such item (0: the loop ends
\* without one).
FirstNamed(items, prefix, name) ==
    IF \A i \in DOMAIN items : ~(items[i].var.kind = prefix /\ NameOf(items[i].var) = name)
        THEN 0
    ELSE CHOOSE i \in DOMAIN items :
            /\ items[i].var.kind = prefix /\ NameOf(items[i].var) = name
            /\ \A j \in DOMAIN items :
                  (items[j].var.kind = prefix /\ NameOf(items[j].var) = name) => i <= j

\* The outcome of to_python: the text it returns or the exception it
\* raises, and ctx as it leaves it.
Rendered(text, ctx) == [text |-> text, ctx |-> ctx]

\* VoltageProbe.to_python, for the place of the item found in
\* ctx['var_record']; assert False when there is none.
VoltageProbeAt(ctx, i) ==
    IF i = 0 THEN Rendered(Err("AssertionError"), ctx)
    ELSE Rendered(Ok(ctx.var_record[i].formula.name), ctx)

VoltageProbeToPython(probe, ctx) ==
    VoltageProbeAt(ctx, FirstNamed(ctx.var_record, "NodePotential", probe.name))

\* CurrentProbe.to_python, for the place of the item found in
\* ctx['edge_currents']: ctx['used_edge_currents'][k] = expr, var
CurrentProbeAt(ctx, i) ==
    IF i = 0 THEN Rendered(Err("AssertionError"), ctx)
    ELSE Rendered(Ok(ctx.edge_currents[i].formula[1].name),
                  [ctx EXCEPT !.used_edge_currents =
                      DictSet(ctx.used_edge_currents, ctx.edge_currents[i].var,
                              <<ctx.edge_currents[i].formula[2],
                                ctx.edge_currents[i].formula[1]>>)])

CurrentProbeToPython(probe, ctx) ==
    CurrentProbeAt(ctx, FirstNamed(ctx.edge_currents, "EdgeCurrent", probe.name))

\* The calls of main on the parsed netlist, up to its return statement.
MainCalls(netlist) ==
    IF ~netlist.ok THEN netlist
    ELSE IF "ohm" \notin NetListAttributes THEN Err("AttributeError")
    ELSE IF "node_potential_substituted_ohm" \notin NetListAttributes THEN Err("AttributeError")
    ELSE Returning(SubstitutedKcl(netlist.val), None)

\* main, on the text of sample1.cir
Main(source) == MainCalls(FromString(source, MainClassSet))

(***************************************************************************)
(* The expression trees the calls are tried on.                            *)
(***************************************************************************)
\* The most nodes a tree under test has.
MaxNodes == 4

ExprLeaves ==
    { ZERO, Constant(R(2)), Variable("x"), CurrentProbe("r1"),
      Function("f", <<POS_ONE>>) }

RECURSIVE TreesOfSize(_)
TreesOfSize(n) ==
    IF n = 1 THEN ExprLeaves
    ELSE {OpUSub(t) : t \in TreesOfSize(n - 1)}
         \cup {OpInvert(t) : t \in TreesOfSize(n - 1)}
         \cup {NamedValue("vs", t) : t \in TreesOfSize(n - 1)}
         \cup UNION { {OpAdd(s, t) : s \in TreesOfSize(i), t \in TreesOfSize(n - 1 - i)}
                      : i \in 1 .. (n - 2) }
         \cup UNION { {OpMul(s, t) : s \in TreesOfSize(i), t \in TreesOfSize(n - 1 - i)}
                      : i \in 1 .. (n - 2) }

ExprTrees == UNION {TreesOfSize(n) : n \in 1 .. MaxNodes}

\* The variables of the equation sets when no equation set is in use.
IdleEq ==
    /\ dst = <<>> /\ src = <<>> /\ prev = <<>>
    /\ op = "none" /\ raised = NoException /\ calls = 0

\* The variables of the expression calls when no tree is under test.
IdleExpr == expr = None /\ evalOut = None /\ simpOut = None /\ simpEvalOut = None

\* The variables of solve when it is not called.
IdleGauss ==
    /\ inA = <<>> /\ inC = <<>> /\ mat = <<>> /\ row = 0
    /\ repl = <<>> /\ sol = <<>> /\ pc = "idle" /\ out = None

\* The variables of the formulator when there is no netlist.
IdleNet == file = <<>> /\ net = None /\ call = "none" /\ ret = None

\* The variables of the equation objects when there are none.
IdleObj == heap = <<>> /\ sets = None /\ before = None

InitExpr ==
    /\ expr \in ExprTrees
    /\ evalOut = None
    /\ simpOut = None
    /\ simpEvalOut = None
    /\ IdleEq /\ IdleGauss /\ IdleNet /\ IdleObj

\* e.evaluate()
CallEvaluate ==
    /\ evalOut = None
    /\ evalOut' = Evaluate(expr)
    /\ UNCHANGED <<expr, simpOut, simpEvalOut, eqVars, gaussVars, netVars, objVars>>

\* s = e.simplify()
CallSimplify ==
    /\ simpOut = None
    /\ simpOut' = Simplify(expr)
    /\ UNCHANGED <<expr, evalOut, simpEvalOut, eqVars, gaussVars, netVars, objVars>>

\* s.evaluate() on the tree simplify returned
CallEvaluateSimplified ==
    /\ simpOut # None
    /\ simpOut.ok
    /\ simpEvalOut = None
    /\ simpEvalOut' = Evaluate(simpOut.val)
    /\ UNCHANGED <<expr, evalOut, simpOut, eqVars, gaussVars, netVars, objVars>>

NextExpr == CallEvaluate \/ CallSimplify \/ CallEvaluateSimplified

SpecExpr == InitExpr /\ [][NextExpr]_vars

(***************************************************************************)
(* The equation sets the substitution and the split are tried on: built    *)
(* from the variables of the voltage divider  V1 a 0 6 / R1 a b 1k /       *)
(* R2 b 0 2k.                                                              *)
(***************************************************************************)
\* The most equations dst holds, and the most src holds.
MaxEqs == 2

\* The most calls (<<= or split_vars_and_const) made on dst.
MaxCalls == 2

LineV1 == << <<"V", "1">>, <<"a">>, <<"0">>, <<"6">> >>

LineR1 == << <<"R", "1">>, <<"a">>, <<"b">>, <<"1", "k">> >>

LineR2 == << <<"R", "2">>, <<"b">>, <<"0">>, <<"2", "k">> >>

EdgeOfLine(line) == Edge(ParseNetlistLine(MainClassSet, line, None, None).val)

I_r1 == EdgeCurrent(EdgeOfLine(LineR1))

I_r2 == EdgeCurrent(EdgeOfLine(LineR2))

V_r1 == EdgeVoltage(EdgeOfLine(LineR1))

V_v1 == EdgeVoltage(EdgeOfLine(LineV1))

E_a == NodePotential(Node(<<"a">>))

E_b == NodePotential(Node(<<"b">>))

\* Equations a destination set is built from: a KCL-like sum with an
\* unfolded 1/R and an empty right side, an equation with constants and a
\* symbolic coefficient on both sides, and one with the replaced variable in
\* the middle of its left side and on its right side.
DstEqPool ==
    { LinearEquation(<<Term(I_r1, OpInvert(Constant(R(2)))), Term(I_r2, NEG_ONE)>>, <<>>),
      LinearEquation(<<Term(V_r1, Constant(R(2))), LinearTermConst(Constant(R(3)))>>,
                     <<Term(I_r2, NEG_ONE), Term(E_a, Variable("g")), LinearTermConst(POS_ONE)>>),
      LinearEquation(<<Term(E_a, None), Term(I_r1, Constant(R(2))), Term(E_b, None)>>,
                     <<Term(I_r1, NEG_ONE)>>) }

\* Equations a source set is built from: KVL of R1, Ohm of R1 (its right
\* side holds the left variable of the KVL equation), an equation whose left
\* coefficient is 2, one with the left variable of the KVL equation again,
\* one with a zero left coefficient, and one that is not of the form
\* k*v = ... (two left terms).
SrcEqPool ==
    { LinearEquation(<<Term(V_r1, None)>>, <<Term(E_a, POS_ONE), Term(E_b, NEG_ONE)>>),
      LinearEquation(<<Term(I_r1, None)>>, <<Term(V_r1, OpInvert(Constant(R(2))))>>),
      LinearEquation(<<Term(I_r2, Constant(R(2)))>>,
                     <<Term(E_b, Variable("g")), LinearTermConst(Constant(R(4)))>>),
      LinearEquation(<<Term(V_r1, NEG_ONE)>>, <<>>),
      LinearEquation(<<Term(V_v1, ZERO)>>, <<Term(E_a, None)>>),
      LinearEquation(<<Term(I_r1, POS_ONE), Term(I_r2, POS_ONE)>>, <<Term(E_a, None)>>) }

InitEq ==
    /\ dst = <<>> /\ src = <<>> /\ prev = <<>>
    /\ op = "none" /\ raised = NoException /\ calls = 0
    /\ IdleExpr /\ IdleGauss /\ IdleNet /\ IdleObj

\* dst.append(eq), while dst is being built
AppendDst ==
    /\ op = "none"
    /\ Len(dst) < MaxEqs
    /\ \E eq \in DstEqPool : dst' = Append(dst, eq)
    /\ UNCHANGED <<src, prev, op, raised, calls, exprVars, gaussVars, netVars, objVars>>

\* src.append(eq), while src is being built
AppendSrc ==
    /\ op = "none"
    /\ Len(src) < MaxEqs
    /\ \E eq \in SrcEqPool : src' = Append(src, eq)
    /\ UNCHANGED <<dst, prev, op, raised, calls, exprVars, gaussVars, netVars, objVars>>

\* dst <<= src
CallIlshift ==
    /\ calls < MaxCalls
    /\ dst' = LinearEquationSetIlshift(dst, src).set
    /\ raised' = LinearEquationSetIlshift(dst, src).raised
    /\ prev' = dst
    /\ op' = "ilshift"
    /\ calls' = calls + 1
    /\ UNCHANGED <<src, exprVars, gaussVars, netVars, objVars>>

\* dst.split_vars_and_const()
CallSplit ==
    /\ calls < MaxCalls
    /\ dst' = LinearEquationSetSplit(dst)
    /\ raised' = NoException
    /\ prev' = dst
    /\ op' = "split"
    /\ calls' = calls + 1
    /\ UNCHANGED <<src, exprVars, gaussVars, netVars, objVars>>

NextEq == AppendDst \/ AppendSrc \/ CallIlshift \/ CallSplit

SpecEq == InitEq /\ [][NextEq]_vars

(***************************************************************************)
(* Equation objects and the sets that hold them.  A program constructs     *)
(* LinearEquation objects, appends them to the sets dst, src and to a      *)
(* third set (other), an object possibly to several sets, and calls        *)
(* dst <<= src  once.  An object is appended to a set at most once, in the *)
(* order of construction.                                                  *)
(***************************************************************************)
\* The most LinearEquation objects constructed.
MaxObjects == 2

\* The equations the objects are constructed as: KVL of R1, Ohm of R1 (its
\* right side holds the left variable of the KVL equation), and an equation
\* that is not of the form k*v = ... (two left terms).
ObjEqPool ==
    { LinearEquation(<<Term(V_r1, None)>>, <<Term(E_a, POS_ONE), Term(E_b, NEG_ONE)>>),
      LinearEquation(<<Term(I_r1, None)>>, <<Term(V_r1, OpInvert(Constant(R(2))))>>),
      LinearEquation(<<Term(I_r1, POS_ONE), Term(I_r2, POS_ONE)>>, <<Term(E_a, None)>>) }

SetNames == {"dst", "src", "other"}

InitObj ==
    /\ heap = <<>>
    /\ sets = [name \in SetNames |-> <<>>]
    /\ before = None
    /\ IdleExpr /\ IdleEq /\ IdleGauss /\ IdleNet

\* eq = LinearEquation(left, right)
NewEquation ==
    /\ before = None
    /\ Len(heap) < MaxObjects
    /\ \E eq \in ObjEqPool : heap' = Append(heap, eq)
    /\ UNCHANGED <<sets, before, exprVars, eqVars, gaussVars, netVars>>

\* dst.append(eq), src.append(eq) or other.append(eq) with an object
\* constructed before
AppendObject ==
    /\ before = None
    /\ \E name \in SetNames, id \in DOMAIN heap :
          /\ \A i \in DOMAIN sets[name] : sets[name][i] < id
          /\ sets' = [sets EXCEPT ![name] = Append(@, id)]
    /\ UNCHANGED <<heap, before, exprVars, eqVars, gaussVars, netVars>>

\* The objects after the call, with the objects and the exception kept for
\* the comparison.
Called(objects, result) ==
    /\ heap' = result.heap
    /\ before' = [heap |-> objects, raised |-> result.raised]

\* dst <<= src
CallIlshiftObjects ==
    /\ before = None
    /\ Called(heap, ObjSetIlshift(heap, sets.dst, sets.src))
    /\ UNCHANGED <<sets, exprVars, eqVars, gaussVars, netVars>>

NextObj == NewEquation \/ AppendObject \/ CallIlshiftObjects

SpecObj == InitObj /\ [][NextObj]_vars

(***************************************************************************)
(* solve(A, c), step by step.  inA and inC are its arguments, mat (M), repl *)
(* and sol (x) its locals, row the index i of the loop that pc names, out  *)
(* what the call returned or raised.                                       *)
(***************************************************************************)
\* The largest entry of the 2 x 2 systems solve is tried on.
MaxEntry == 2

Entries == {R(v) : v \in -1..MaxEntry}

Row2(a, b) == <<a, b>>

\* The systems solve is tried on besides every 2 x 2 system over Entries:
\* A = [[2,1],[1,3]], c = [[5],[10]]; a 3 x 3 system that needs no swap; an
\* upper triangular one; one whose first pivot is zero; one whose second
\* pivot becomes zero; a singular one whose second pivot becomes zero with
\* a zero below it; a singular one whose first column is zero.
SolveExamples ==
    { [A |-> <<Row2(R(2), R(1)), Row2(R(1), R(3))>>, c |-> << <<R(5)>>, <<R(10)>> >>],
      [A |-> << <<R(1), R(1), R(1)>>, <<R(0), R(2), R(5)>>, <<R(2), R(5), R(-1)>> >>,
       c |-> << <<R(6)>>, <<R(-4)>>, <<R(27)>> >>],
      [A |-> << <<R(2), R(1), R(0)>>, <<R(0), R(4), R(1)>>, <<R(0), R(0), R(5)>> >>,
       c |-> << <<R(3)>>, <<R(6)>>, <<R(10)>> >>],
      [A |-> << <<R(0), R(1), R(1)>>, <<R(0), R(2), R(1)>>, <<R(3), R(0), R(1)>> >>,
       c |-> << <<R(2)>>, <<R(3)>>, <<R(4)>> >>],
      [A |-> << <<R(1), R(2), R(1)>>, <<R(2), R(4), R(3)>>, <<R(1), R(1), R(1)>> >>,
       c |-> << <<R(4)>>, <<R(9)>>, <<R(3)>> >>],
      [A |-> << <<R(1), R(1), R(1)>>, <<R(1), R(1), R(2)>>, <<R(1), R(1), R(3)>> >>,
       c |-> << <<R(1)>>, <<R(2)>>, <<R(3)>> >>],
      [A |-> << <<R(0), R(1), R(1)>>, <<R(0), R(1), R(2)>>, <<R(0), R(1), R(3)>> >>,
       c |-> << <<R(1)>>, <<R(2)>>, <<R(3)>> >>] }

SolveInputs ==
    SolveExamples \cup
    { [A |-> <<Row2(a, b), Row2(d, e)>>, c |-> << <<f>>, <<g>> >>] :
        a \in Entries, b \in Entries, d \in Entries, e \in Entries,
        f \in Entries, g \in Entries }

\* The entry of solve: M, idx and repl are set up.
InitGauss ==
    /\ \E input \in SolveInputs :
          /\ inA = input.A
          /\ inC = input.c
          /\ mat = Concatenate(input.A, input.c)
          /\ sol = Zeros(Len(input.A))
    /\ row = 1
    /\ repl = <<>>
    /\ pc = "forward"
    /\ out = None
    /\ IdleExpr /\ IdleEq /\ IdleNet /\ IdleObj

\* The head of the forward loop: the loop ends when idx is exhausted or when
\* the lower triangle is zero; otherwise the pivot is tested.
ForwardLoop ==
    /\ pc = "forward"
    /\ IF row > Len(mat) \/ LowerTriangleIsZero(mat)
       THEN pc' = "backward" /\ row' = Len(mat)
       ELSE /\ pc' = (IF mat[row][row] = RZero THEN "swap" ELSE "eliminate")
            /\ row' = row
    /\ UNCHANGED <<inA, inC, mat, repl, sol, out, exprVars, eqVars, netVars, objVars>>

\* The body of "if mat[i, i] == 0": indexing an empty array with [0] raises
\* IndexError.
ForwardSwap ==
    /\ pc = "swap"
    /\ IF RowsToSwapWith(mat, row) = {}
       THEN /\ out' = Err("IndexError")
            /\ pc' = "done"
            /\ UNCHANGED <<mat, repl>>
       ELSE /\ mat' = SwapRows(mat, row, FirstRow(RowsToSwapWith(mat, row)))
            /\ repl' = Append(repl, <<row, FirstRow(RowsToSwapWith(mat, row))>>)
            /\ pc' = "eliminate"
            /\ out' = out
    /\ UNCHANGED <<inA, inC, row, sol, exprVars, eqVars, netVars, objVars>>

\* The row operation that ends an iteration of the forward loop
ForwardEliminate ==
    /\ pc = "eliminate"
    /\ mat' = Eliminate(mat, row)
    /\ row' = row + 1
    /\ pc' = "forward"
    /\ UNCHANGED <<inA, inC, repl, sol, out, exprVars, eqVars, netVars, objVars>>

\* An iteration of the backward loop, i running from the last row to the
\* first; after the first row the swaps are undone from the last to the
\* first.
BackwardStep ==
    /\ pc = "backward"
    /\ sol' = [sol EXCEPT ![row] = BackwardValue(mat, sol, row)]
    /\ IF row > 1
       THEN row' = row - 1 /\ pc' = pc
       ELSE row' = Len(repl) /\ pc' = "unswap"
    /\ UNCHANGED <<inA, inC, mat, repl, out, exprVars, eqVars, netVars, objVars>>

\* for i, j in reversed(repl): x[i], x[j] = x[j], x[i]
UnswapStep ==
    /\ pc = "unswap"
    /\ row > 0
    /\ sol' = SwapEntries(sol, repl[row])
    /\ row' = row - 1
    /\ UNCHANGED <<inA, inC, mat, repl, pc, out, exprVars, eqVars, netVars, objVars>>

\* return x
Return ==
    /\ pc = "unswap"
    /\ row = 0
    /\ out' = Ok(sol)
    /\ pc' = "done"
    /\ UNCHANGED <<inA, inC, mat, row, repl, sol, exprVars, eqVars, netVars, objVars>>

NextGauss ==
    ForwardLoop \/ ForwardSwap \/ ForwardEliminate \/ BackwardStep \/ UnswapStep \/ Return

SpecGauss == InitGauss /\ [][NextGauss]_vars

(***************************************************************************)
(* The formulator and the driver on netlist texts.  file is the text of    *)
(* sample1.cir as the sequence of its lines (a line is the sequence of its *)
(* whitespace-separated tokens), net what from_string made of it, call     *)
(* the last call made and ret what it returned or raised.                  *)
(***************************************************************************)
\* The most lines a netlist holds after its title line.
MaxLines == 3

TitleLine == << <<"t">> >>

LineI1 == << <<"I", "1">>, <<"0">>, <<"a">>, <<"1">> >>

LineComment == << <<"*">>, <<"c">> >>

\* A behavioural source: no class of main has the prefix "e".
LineE1 == << <<"E", "1">>, <<"c">>, <<"0">>,
             <<"v", "s", "=", "2", "*", "V", "(", "b", ")">> >>

\* A resistor line with one node missing
LineShort == << <<"R", "1">>, <<"a">>, <<"1", "k">> >>

LinePool == {LineV1, LineR1, LineR2, LineI1, LineComment, LineE1, LineShort}

\* The voltage divider: title line, V1 a 0 6, R1 a b 1k, R2 b 0 2k
VoltageDivider == <<TitleLine, LineV1, LineR1, LineR2>>

InitNet ==
    /\ file = <<TitleLine>>
    /\ net = None
    /\ call = "none"
    /\ ret = None
    /\ IdleExpr /\ IdleEq /\ IdleGauss /\ IdleObj

\* A line is written to the file
AppendLine ==
    /\ call = "none"
    /\ Len(file) <= MaxLines
    /\ \E line \in LinePool : file' = Append(file, line)
    /\ UNCHANGED <<net, call, ret, exprVars, eqVars, gaussVars, objVars>>

\* netlist = NetList.from_string(source, class_set)
CallFromString ==
    /\ net = None
    /\ call = "none"
    /\ \E class_set \in ClassSets :
        /\ net' = FromString(file, class_set)
        /\ ret' = FromString(file, class_set)
    /\ call' = "from_string"
    /\ UNCHANGED <<file, exprVars, eqVars, gaussVars, objVars>>

\* The netlist from_string returned is there to call a method on.
Parsed == net # None /\ net.ok

CallOhmsLaw ==
    /\ Parsed
    /\ call' = "ohms_law"
    /\ ret' = OhmsLaw(net.val)
    /\ UNCHANGED <<file, net, exprVars, eqVars, gaussVars, objVars>>

CallKcl ==
    /\ Parsed
    /\ call' = "kcl"
    /\ ret' = Ok(Kcl(net.val))
    /\ UNCHANGED <<file, net, exprVars, eqVars, gaussVars, objVars>>

CallKvl ==
    /\ Parsed
    /\ call' = "kvl"
    /\ ret' = Ok(Kvl(net.val))
    /\ UNCHANGED <<file, net, exprVars, eqVars, gaussVars, objVars>>

CallNodePotentialSubstitutedOhmsLaw ==
    /\ Parsed
    /\ call' = "node_potential_substituted_ohms_law"
    /\ ret' = NodePotentialSubstitutedOhmsLaw(net.val)
    /\ UNCHANGED <<file, net, exprVars, eqVars, gaussVars, objVars>>

CallSubstitutedKcl ==
    /\ Parsed
    /\ call' = "substituted_kcl"
    /\ ret' = SubstitutedKcl(net.val)
    /\ UNCHANGED <<file, net, exprVars, eqVars, gaussVars, objVars>>

CallTotalEquations ==
    /\ Parsed
    /\ call' = "total_equations"
    /\ ret' = TotalEquations(net.val)
    /\ UNCHANGED <<file, net, exprVars, eqVars, gaussVars, objVars>>

CallExpressionsForPotential ==
    /\ Parsed
    /\ call' = "expressions_for_potential"
    /\ ret' = ExpressionsForPotential(net.val)
    /\ UNCHANGED <<file, net, exprVars, eqVars, gaussVars, objVars>>

CallNodePotentialSubstitutedOhmsLawEquations ==
    /\ Parsed
    /\ call' = "node_potential_substituted_ohms_law_equations"
    /\ ret' = NodePotentialSubstitutedOhmsLawEquations(net.val)
    /\ UNCHANGED <<file, net, exprVars, eqVars, gaussVars, objVars>>

\* The probes rendered: the current of R1, of r1 and of R9, the potential
\* of b and of z.
ProbePool ==
    { CurrentProbe(<<"R", "1">>), CurrentProbe(<<"r", "1">>), CurrentProbe(<<"R", "9">>),
      VoltageProbe(<<"b">>), VoltageProbe(<<"z">>) }

\* dict(var_record=rec, edge_currents=ohm_dct, used_edge_currents={}) with
\* an entry of var_record for every node and an entry (var, expr) of
\* edge_currents for every edge of the netlist.
RECURSIVE RecordOf(_, _)
RecordOf(variables, dct) ==
    IF Len(variables) = 0 THEN dct
    ELSE RecordOf(Tail(variables),
                  DictSet(dct, Head(variables), ParseVariableToExpr(Head(variables))))

RECURSIVE EdgeCurrentsOf(_, _)
EdgeCurrentsOf(edges, dct) ==
    IF Len(edges) = 0 THEN dct
    ELSE EdgeCurrentsOf(Tail(edges),
                        DictSet(dct, EdgeCurrent(Head(edges)),
                                <<ParseVariableToExpr(EdgeCurrent(Head(edges))), ZERO>>))

ContextOf(netlist) ==
    [var_record |-> RecordOf([k \in DOMAIN Nodes(netlist) |-> NodePotential(Nodes(netlist)[k])],
                             <<>>),
     edge_currents |-> EdgeCurrentsOf(Edges(netlist), <<>>),
     used_edge_currents |-> <<>>]

\* probe.to_python(ctx) on a context made for the netlist
CallToPython ==
    /\ Parsed
    /\ call' = "to_python"
    /\ \E probe \in ProbePool :
          ret' = [probe |-> probe,
                  rendered |-> IF probe.type = "CurrentProbe"
                               THEN CurrentProbeToPython(probe, ContextOf(net.val))
                               ELSE VoltageProbeToPython(probe, ContextOf(net.val))]
    /\ UNCHANGED <<file, net, exprVars, eqVars, gaussVars, objVars>>

\* main(), which reads the file and parses it itself
CallMain ==
    /\ net = None
    /\ call = "none"
    /\ call' = "main"
    /\ ret' = Main(file)
    /\ UNCHANGED <<file, net, exprVars, eqVars, gaussVars, objVars>>

NextNet ==
    \/ AppendLine \/ CallFromString \/ CallOhmsLaw \/ CallKcl \/ CallKvl
    \/ CallNodePotentialSubstitutedOhmsLaw \/ CallSubstitutedKcl
    \/ CallTotalEquations \/ CallExpressionsForPotential
    \/ CallNodePotentialSubstitutedOhmsLawEquations \/ CallToPython \/ CallMain

SpecNet == InitNet /\ [][NextNet]_vars

(***************************************************************************)
(* Claims about the expression tree.                                       *)
(***************************************************************************)
FreeLeafTypes == {"Variable", "VoltageProbe", "CurrentProbe", "Function"}

RECURSIVE AllLeavesConstant(_)
AllLeavesConstant(e) ==
    CASE e.type = "Constant" -> TRUE
      [] e.type \in BinaryOperators -> AllLeavesConstant(e.a) /\ AllLeavesConstant(e.b)
      [] e.type \in UnaryOperators -> AllLeavesConstant(e.a)
      [] e.type = "NamedValue" -> AllLeavesConstant(e.node)
      [] OTHER -> FALSE

\* The left-to-right evaluation of e gets to a Variable, Probe or Function.
RECURSIVE ReachesFreeLeaf(_)
ReachesFreeLeaf(e) ==
    CASE e.type = "Constant" -> FALSE
      [] e.type \in BinaryOperators ->
            ReachesFreeLeaf(e.a) \/ (Evaluate(e.a).ok /\ ReachesFreeLeaf(e.b))
      [] e.type \in UnaryOperators -> ReachesFreeLeaf(e.a)
      [] e.type = "NamedValue" -> ReachesFreeLeaf(e.node)
      [] OTHER -> TRUE

\* The tree holds OpInvert applied to a subtree that evaluates to zero.
RECURSIVE InvertsZero(_)
InvertsZero(e) ==
    CASE e.type \in BinaryOperators -> InvertsZero(e.a) \/ InvertsZero(e.b)
      [] e.type = "OpInvert" -> InvertsZero(e.a) \/ Evaluate(e.a) = Ok(RZero)
      [] e.type = "OpUSub" -> InvertsZero(e.a)
      [] e.type = "NamedValue" -> InvertsZero(e.node)
      [] OTHER -> FALSE

\* C9: evaluate() of a tree whose leaves are all Constant returns a number,
\* and evaluate() of a tree in which a Variable, Probe or Function is reached
\* fails with NotEvaluable (NotImplementedError).
C9_EvaluateNumberOrNotEvaluable ==
    evalOut # None =>
        /\ AllLeavesConstant(expr) => evalOut.ok
        /\ ReachesFreeLeaf(expr) => evalOut = Err("NotImplementedError")

\* What does hold of evaluate(): the claim's two cases, for the trees that
\* divide by no zero; a constant tree that inverts zero raises
\* ZeroDivisionError.
C9_HoldsWithoutZeroDivision ==
    evalOut # None =>
        /\ (AllLeavesConstant(expr) /\ ~InvertsZero(expr)) => evalOut.ok
        /\ (AllLeavesConstant(expr) /\ ~evalOut.ok) => evalOut = Err("ZeroDivisionError")
        /\ ReachesFreeLeaf(expr) => evalOut = Err("NotImplementedError")

\* C10: whenever e.evaluate() and simplify(e).evaluate() both succeed they
\* return the same value.
C10_SimplifyKeepsValue ==
    (evalOut # None /\ simpEvalOut # None /\ evalOut.ok /\ simpEvalOut.ok)
        => simpEvalOut.val = evalOut.val

\* C10's case: an operator node over operator nodes was folded by simplify
\* and both evaluations returned.
C10_Witness ==
    /\ evalOut # None /\ simpEvalOut # None /\ simpOut # None
    /\ evalOut.ok /\ simpEvalOut.ok
    /\ expr.type \in BinaryOperators
    /\ expr.a.type \in UnaryOperators
    /\ simpOut.val = Constant(evalOut.val)
    /\ simpOut.val # expr

(***************************************************************************)
(* Claims about the substitution and the split of equation.py.             *)
(***************************************************************************)
\* The values the symbolic coefficient g is given when two coefficient trees
\* are compared by value.
GValues == {R(2), R(-3)}

\* The value of a coefficient tree when its variables have the value g.
RECURSIVE ValueUnder(_, _)
ValueUnder(g, e) ==
    CASE e.type = "Constant" -> e.value
      [] e.type = "Variable" -> g
      [] e.type = "OpAdd" -> RAdd(ValueUnder(g, e.a), ValueUnder(g, e.b))
      [] e.type = "OpMul" -> RMul(ValueUnder(g, e.a), ValueUnder(g, e.b))
      [] e.type = "OpUSub" -> RNeg(ValueUnder(g, e.a))
      [] e.type = "OpInvert" -> RInv(ValueUnder(g, e.a))
      [] e.type = "NamedValue" -> ValueUnder(g, e.node)
      [] OTHER -> RNaN

\* The coefficient of a term as a function of g.
Values(k) == [g \in GValues |-> ValueUnder(g, k)]

\* new is the term of the right side of src_eq (right_term) multiplied by k
\* and by the inverse of the left coefficient of src_eq.
IsScaled(new, right_term, k, src_eq) ==
    /\ new.element = right_term.element
    /\ \A g \in GValues :
          ValueUnder(g, new.k) =
             RMul(RMul(ValueUnder(g, k), RInv(ValueUnder(g, src_eq.left[1].k))),
                  ValueUnder(g, right_term.k))

\* The first terms of actual are the right side of src_eq scaled for term.
StartsWithScaled(actual, term, src_eq) ==
    /\ Len(actual) >= Len(src_eq.right)
    /\ \A m \in DOMAIN src_eq.right :
          IsScaled(actual[m], src_eq.right[m], term.k, src_eq)

\* actual is terms with every term whose variable is the left variable of an
\* equation of src_eqs replaced, in place, by the scaled right side of such an
\* equation, and every other term kept.
RECURSIVE Rewritten(_, _, _)
Rewritten(actual, terms, src_eqs) ==
    IF Len(terms) = 0 THEN Len(actual) = 0
    ELSE IF \E j \in DOMAIN src_eqs : src_eqs[j].left[1].element = Head(terms).element
    THEN \E j \in DOMAIN src_eqs :
            /\ src_eqs[j].left[1].element = Head(terms).element
            /\ StartsWithScaled(actual, Head(terms), src_eqs[j])
            /\ Rewritten(SubSeq(actual, Len(src_eqs[j].right) + 1, Len(actual)),
                         Tail(terms), src_eqs)
    ELSE /\ Len(actual) > 0
         /\ Head(actual) = Head(terms)
         /\ Rewritten(Tail(actual), Tail(terms), src_eqs)

\* The last call was dst <<= src, src was well formed and nothing was raised.
Substituted == op = "ilshift" /\ raised = NoException /\ AllSingleLeft(src)

\* v is the left variable of an equation of src.
IsLeftVar(v) == \E j \in DOMAIN src : Len(src[j].left) = 1 /\ src[j].left[1].element = v

HasLeftVar(terms) == \E m \in DOMAIN terms : IsLeftVar(terms[m].element)

\* C4: dst <<= src with a well-formed src rewrites both sides of every
\* equation of dst: a term k*v whose v is the left variable of a src equation
\* k_l*v = right is replaced at its position by the terms of right, each
\* multiplied by k and by 1/k_l; every other term is kept in place.
C4_BothSidesRewritten ==
    Substituted =>
        /\ Len(dst) = Len(prev)
        /\ \A i \in DOMAIN prev :
              /\ Rewritten(dst[i].left, prev[i].left, src)
              /\ Rewritten(dst[i].right, prev[i].right, src)

\* A substitution that replaced a term on the left and a term on the right of
\* one equation, with a left coefficient of src that is not 1, and kept
\* another term of that equation.
C4_Witness ==
    /\ Substituted
    /\ \E i \in DOMAIN prev :
          /\ HasLeftVar(prev[i].left)
          /\ HasLeftVar(prev[i].right)
          /\ \E m \in DOMAIN prev[i].left : ~IsLeftVar(prev[i].left[m].element)
          /\ dst[i].left # prev[i].left
          /\ dst[i].right # prev[i].right
    /\ \E j \in DOMAIN src : src[j].left[1].k = Constant(R(2)) /\ Len(src[j].right) > 1

\* The equation of src the dict of var_to_formula keeps for v: the last one.
EquationFor(v) ==
    src[CHOOSE j \in DOMAIN src :
            /\ src[j].left[1].element = v
            /\ \A n \in DOMAIN src : src[n].left[1].element = v => n <= j]

\* The number of terms whose variable is a left variable of src.
RECURSIVE CountLeftVars(_)
CountLeftVars(terms) ==
    IF Len(terms) = 0 THEN 0
    ELSE (IF IsLeftVar(Head(terms).element) THEN 1 ELSE 0) + CountLeftVars(Tail(terms))

\* The number of terms with a left variable of src that one pass over terms
\* introduces: those of the right sides put in place of the replaced terms.
RECURSIVE IntroducedLeftVars(_)
IntroducedLeftVars(terms) ==
    IF Len(terms) = 0 THEN 0
    ELSE (IF IsLeftVar(Head(terms).element)
          THEN CountLeftVars(EquationFor(Head(terms).element).right)
          ELSE 0) + IntroducedLeftVars(Tail(terms))

\* C5: the substitution is single-pass.  After dst <<= src every term the
\* call introduced whose variable is itself a left variable of src is still
\* there, not substituted; the terms that had such a variable before the
\* call (also those an earlier call introduced) are the ones replaced.
C5_SinglePass ==
    Substituted =>
        \A i \in DOMAIN prev :
            /\ CountLeftVars(dst[i].left) = IntroducedLeftVars(prev[i].left)
            /\ CountLeftVars(dst[i].right) = IntroducedLeftVars(prev[i].right)

\* After the first call a side of dst holds a term the call introduced (no
\* term of the equation had its variable before) whose variable is the left
\* variable of an equation of src.
C5_Witness ==
    /\ Substituted
    /\ calls = 1
    /\ \E i \in DOMAIN dst : \E m \in DOMAIN dst[i].left :
          /\ IsLeftVar(dst[i].left[m].element)
          /\ \A n \in DOMAIN prev[i].left :
                prev[i].left[n].element # dst[i].left[m].element
          /\ \A n \in DOMAIN prev[i].right :
                prev[i].right[n].element # dst[i].left[m].element

NothingToReplace(eqs) ==
    \A i \in DOMAIN eqs : ~HasLeftVar(eqs[i].left) /\ ~HasLeftVar(eqs[i].right)

\* C7 as stated: dst <<= src fails whenever an equation of src has a left
\* side that is not exactly one term, for every dst, an empty dst included,
\* and dst is unchanged after the failed call.
C7_MalformedSourceFailsForEveryDst ==
    (op = "ilshift" /\ ~AllSingleLeft(src)) => (raised # NoException /\ dst = prev)

\* C7 amended: dst <<= src with an equation of src whose left side is not
\* exactly one term raises ValueError for every dst that holds at least one
\* equation, also when none of its terms would be replaced, and leaves dst
\* unchanged; with an empty dst the call raises nothing.
C7_MalformedSourceFailsForNonEmptyDst ==
    (op = "ilshift" /\ ~AllSingleLeft(src)) =>
        /\ dst = prev
        /\ prev # <<>> => raised = "ValueError"
        /\ prev = <<>> => raised = NoException

\* A failed call with a malformed src on a dst none of whose terms would be
\* replaced.
C7_Witness ==
    /\ op = "ilshift"
    /\ ~AllSingleLeft(src)
    /\ prev # <<>>
    /\ NothingToReplace(prev)
    /\ raised = "ValueError"

\* The term, its coefficient taken by value.
Sig(t) == [element |-> t.element, values |-> Values(t.k)]

\* The negated term, its coefficient taken by value.
NegSig(t) == [element |-> t.element, values |-> [g \in GValues |-> RNeg(ValueUnder(g, t.k))]]

\* The number of terms of terms that are sig by value.
RECURSIVE CountSig(_, _)
CountSig(terms, sig) ==
    IF Len(terms) = 0 THEN 0
    ELSE (IF Sig(Head(terms)) = sig THEN 1 ELSE 0) + CountSig(Tail(terms), sig)

\* The number of terms of terms whose negation is sig by value.
RECURSIVE CountNegSig(_, _)
CountNegSig(terms, sig) ==
    IF Len(terms) = 0 THEN 0
    ELSE (IF NegSig(Head(terms)) = sig THEN 1 ELSE 0) + CountNegSig(Tail(terms), sig)

Vars(terms) == SelectSeq(terms, LAMBDA t : t.element # VAR_CONST)

Consts(terms) == SelectSeq(terms, LAMBDA t : t.element = VAR_CONST)

\* The terms of an equation, by value, and their negations.
SigsOf(eq) ==
    {Sig(eq.left[m]) : m \in DOMAIN eq.left} \cup {Sig(eq.right[m]) : m \in DOMAIN eq.right}
    \cup {NegSig(eq.left[m]) : m \in DOMAIN eq.left}
    \cup {NegSig(eq.right[m]) : m \in DOMAIN eq.right}

\* new is old with the variable terms on the left and the constant terms on
\* the right: every term of old is in new once, as it was when it stayed on
\* its side and negated when it crossed the equals sign.
IsSplitOf(new, old) ==
    /\ Consts(new.left) = <<>>
    /\ Vars(new.right) = <<>>
    /\ \A sig \in SigsOf(old) \cup SigsOf(new) :
          /\ CountSig(new.left, sig) =
                CountSig(Vars(old.left), sig) + CountNegSig(Vars(old.right), sig)
          /\ CountSig(new.right, sig) =
                CountSig(Consts(old.right), sig) + CountNegSig(Consts(old.left), sig)

\* C8: split_vars_and_const returns an equation with only variable terms on
\* the left and only constant terms on the right; no term is lost or
\* duplicated, and exactly the terms that cross the equals sign (variables of
\* the right side, constants of the left side) are negated.
C8_SplitVarsAndConst ==
    op = "split" =>
        /\ Len(dst) = Len(prev)
        /\ \A i \in DOMAIN prev : IsSplitOf(dst[i], prev[i])

\* A split of an equation with a constant on the left, a variable on the
\* right, and a variable and a constant that stay.
C8_Witness ==
    /\ op = "split"
    /\ \E i \in DOMAIN prev :
          /\ Consts(prev[i].left) # <<>> /\ Vars(prev[i].left) # <<>>
          /\ Consts(prev[i].right) # <<>> /\ Vars(prev[i].right) # <<>>
          /\ dst[i] # prev[i]

(***************************************************************************)
(* Claims about the driver, the total system and the solver.               *)
(***************************************************************************)
\* The solution of the voltage divider: e_a = 6, e_b = 4, i_r1 = i_r2 =
\* 0.002, e_0 = 0.
DividerSolution ==
    [e_a |-> R(6), e_b |-> R(4), i_r1 |-> <<1, 500>>, i_r2 |-> <<1, 500>>, e_0 |-> R(0)]

\* C1: for the netlist with a title line, V1 a 0 6, R1 a b 1k and R2 b 0 2k
\* the run parse -> Ohm/KCL/KVL -> substitution -> total system -> solve
\* yields e_a = 6, e_b = 4, i_r1 = i_r2 = 0.002 and e_0 = 0: main returns
\* that solution, and the total system it is computed from is emitted.
C1_VoltageDividerIsSolved ==
    file = VoltageDivider =>
        /\ call = "main" => ret = Ok(DividerSolution)
        /\ call = "total_equations" => ret.ok

\* The variables of the terms of an equation set.
Unknowns(eqs) ==
    UNION {{eqs[k].left[p].element : p \in DOMAIN eqs[k].left}
           \cup {eqs[k].right[p].element : p \in DOMAIN eqs[k].right} : k \in DOMAIN eqs}
    \ {VAR_CONST}

\* C2: for every parsed netlist the formulator emits a total system, and the
\* system is square: as many equations as distinct unknowns.
C2_TotalSystemIsSquare ==
    call = "total_equations" =>
        /\ ret.ok
        /\ Len(ret.val) = Cardinality(Unknowns(ret.val))

\* The matrix without row r and column k.
Minor(A, r, k) ==
    [p \in 1..(Len(A) - 1) |->
        [q \in 1..(Len(A) - 1) |->
            A[IF p < r THEN p ELSE p + 1][IF q < k THEN q ELSE q + 1]]]

\* The determinant, expanded along the first row.
RECURSIVE Det(_)
Det(A) ==
    IF Len(A) = 1 THEN A[1][1]
    ELSE LET Cofactor(k) == RMul(RMul(R(IF k % 2 = 1 THEN 1 ELSE -1), A[1][k]),
                                 Det(Minor(A, 1, k)))
             Sum[k \in 0..Len(A)] == IF k = 0 THEN RZero ELSE RAdd(Sum[k - 1], Cofactor(k))
         IN  Sum[Len(A)]

\* The leading k x k block of A.
Leading(A, k) == [p \in 1..k |-> [q \in 1..k |-> A[p][q]]]

\* A is nonsingular and elimination without row exchanges meets no zero
\* pivot: no leading block of A is singular.
NoZeroPivot(A) == \A k \in 1..Len(A) : Det(Leading(A, k)) # RZero

\* A * x = c
IsSolution(A, x, c) == \A r \in DOMAIN A : Dot(x, A[r], Len(A)) = c[r][1]

\* C3: for every nonsingular n x n matrix A whose forward elimination meets
\* no zero pivot and every c, solve(A, c) returns x of length n with
\* A * x = c; A = [[2,1],[1,3]], c = [[5],[10]] gives x = [1, 3].
C3_SolveSolves ==
    (pc = "done" /\ NoZeroPivot(inA)) =>
        /\ out.ok
        /\ repl = <<>>
        /\ Len(out.val) = Len(inA)
        /\ IsSolution(inA, out.val, inC)
        /\ (inA = <<Row2(R(2), R(1)), Row2(R(1), R(3))>> /\ inC = << <<R(5)>>, <<R(10)>> >>)
              => out.val = <<R(1), R(3)>>

\* solve has returned [1, 3] for A = [[2,1],[1,3]], c = [[5],[10]].
C3_Witness ==
    /\ pc = "done"
    /\ NoZeroPivot(inA)
    /\ inA = <<Row2(R(2), R(1)), Row2(R(1), R(3))>>
    /\ inC = << <<R(5)>>, <<R(10)>> >>
    /\ out = Ok(<<R(1), R(3)>>)

(***************************************************************************)
(* Claims about the formulator: Ohm, KCL, KVL and their substitutions.     *)
(***************************************************************************)
\* C11: for every parsed netlist the total system is emitted and the number
\* of edges plus the number of nodes is the number of distinct unknowns of
\* the total system plus one.
C11_EdgesAndNodesCountUnknowns ==
    call = "total_equations" =>
        /\ ret.ok
        /\ Len(Edges(net.val)) + Len(Nodes(net.val)) = Cardinality(Unknowns(ret.val)) + 1

\* The terms of an equation set.
TermsOf(eqs) ==
    UNION {{eqs[k].left[p] : p \in DOMAIN eqs[k].left}
           \cup {eqs[k].right[p] : p \in DOMAIN eqs[k].right} : k \in DOMAIN eqs}

\* C12: every term an operation on terms produces (here: the terms the last
\* substitution or split put into dst) holds a simplified coefficient:
\* simplify(k) = k.
C12_CoefficientsAreSimplified ==
    op # "none" =>
        \A t \in TermsOf(dst) \ TermsOf(prev) : Simplify(t.k) = Ok(t.k)

\* The edges whose class defines a conductance producer.
WithProducer(edges) == SelectSeq(edges, LAMBDA e : e.component.clazz.g_proc # None)

\* C13: ohms_law returns exactly one equation per edge whose class defines a
\* conductance producer, I_edge on the left and one term on V_edge on the
\* right, and none for an edge whose class defines none.
C13_OhmExactlyForConductanceEdges ==
    call = "ohms_law" =>
        /\ ret.ok
        /\ Len(ret.val) = Len(WithProducer(Edges(net.val)))
        /\ \A k \in DOMAIN ret.val :
              /\ ret.val[k].left = <<Term(EdgeCurrent(WithProducer(Edges(net.val))[k]), None)>>
              /\ Len(ret.val[k].right) = 1
              /\ ret.val[k].right[1].element = EdgeVoltage(WithProducer(Edges(net.val))[k])

\* The nodes the components of a netlist are bound to.
NodeSet(netlist) ==
    {netlist.components[c].port_mapping[p] :
        <<c, p>> \in (DOMAIN netlist.components) \X {1, 2}}

\* The ports bound to a node, each as <<component position, port position>>.
IncidentPorts(netlist, node) ==
    {cp \in (DOMAIN netlist.components) \X {1, 2} :
        netlist.components[cp[1]].port_mapping[cp[2]] = node}

\* The KCL term of a port: the current of its component's edge, +1 when the
\* class declares the port's current flow IN and -1 when OUT.
PortTerm(netlist, cp) ==
    LinearTerm(Constant(R(IF netlist.components[cp[1]].clazz.current_flow[cp[2]]
                               = CurrentFlowIN THEN 1 ELSE -1)),
               EdgeCurrent(Edge(netlist.components[cp[1]])))

\* eq is the KCL equation of node: its left side holds the terms of the
\* incident ports, each as often as ports have it, and nothing else; its
\* right side is empty.
IsKclOf(eq, netlist, node) ==
    /\ eq.right = <<>>
    /\ Len(eq.left) = Cardinality(IncidentPorts(netlist, node))
    /\ \A cp \in IncidentPorts(netlist, node) :
          Cardinality({i \in DOMAIN eq.left : eq.left[i] = PortTerm(netlist, cp)})
            = Cardinality({cq \in IncidentPorts(netlist, node) :
                              PortTerm(netlist, cq) = PortTerm(netlist, cp)})

\* C14: kcl emits exactly one equation per node of the circuit; its left
\* side has one term per port incident on the node, the current of the
\* port's edge with coefficient +1 for current flow IN and -1 for OUT; its
\* right side is zero.
C14_KclPerNode ==
    call = "kcl" =>
        /\ ret.ok
        /\ Len(ret.val) = Cardinality(NodeSet(net.val))
        /\ \A node \in NodeSet(net.val) :
              Cardinality({k \in DOMAIN ret.val : IsKclOf(ret.val[k], net.val, node)}) = 1

\* kcl was called on a netlist with a node where a port with current flow IN
\* meets one with current flow OUT.
C14_Witness ==
    /\ call = "kcl"
    /\ ret.ok
    /\ \E k \in DOMAIN ret.val :
          /\ \E i \in DOMAIN ret.val[k].left : ret.val[k].left[i].k = Constant(R(1))
          /\ \E i \in DOMAIN ret.val[k].left : ret.val[k].left[i].k = Constant(R(-1))

\* The node a component binds to a port of its class.
NodeOfPort(component, port_name) ==
    component.port_mapping[CHOOSE p \in {1, 2} : ClassPorts(component.clazz)[p] = port_name]

\* V_edge = (+1)*E_high + (-1)*E_low for the edge of a component
KvlFor(component) ==
    LinearEquation(
        <<LinearTerm(Constant(R(1)), EdgeVoltage(Edge(component)))>>,
        <<LinearTerm(Constant(R(1)),
                     NodePotential(NodeOfPort(component, component.clazz.port_high))),
          LinearTerm(Constant(R(-1)),
                     NodePotential(NodeOfPort(component, component.clazz.port_low)))>>)

\* The netlist with the two node bindings of every component exchanged.
BindingsExchanged(netlist) ==
    [netlist EXCEPT !.components =
        [c \in DOMAIN netlist.components |->
            [netlist.components[c] EXCEPT
                !.port_mapping = <<netlist.components[c].port_mapping[2],
                                   netlist.components[c].port_mapping[1]>>]]]

\* The sum of the constant coefficients a side has on a variable.
RECURSIVE CoefficientOn(_, _)
CoefficientOn(terms, element) ==
    IF Len(terms) = 0 THEN RZero
    ELSE RAdd(IF Head(terms).element = element THEN Head(terms).k.value ELSE RZero,
              CoefficientOn(Tail(terms), element))

\* C15: kvl emits one equation per edge, V_edge = (+1)*E_high + (-1)*E_low
\* with high and low the nodes bound to the class's port_high and port_low,
\* and exchanging the two node bindings negates the right side.
C15_KvlPerEdge ==
    call = "kvl" =>
        /\ ret.ok
        /\ Len(ret.val) = Len(net.val.components)
        /\ \A c \in DOMAIN net.val.components :
              Cardinality({k \in DOMAIN ret.val : ret.val[k] = KvlFor(net.val.components[c])})
                = Cardinality({d \in DOMAIN net.val.components :
                                  KvlFor(net.val.components[d]) = KvlFor(net.val.components[c])})
        /\ \A k \in DOMAIN ret.val :
              \A node \in NodeSet(net.val) :
                  CoefficientOn(Kvl(BindingsExchanged(net.val))[k].right, NodePotential(node))
                    = RNeg(CoefficientOn(ret.val[k].right, NodePotential(node)))

\* kvl was called on a netlist with an edge between two different nodes.
C15_Witness ==
    /\ call = "kvl"
    /\ ret.ok
    /\ \E k \in DOMAIN ret.val :
          ret.val[k].right[1].element # ret.val[k].right[2].element

\* C16: the equations for potentials hold the ground constraint E_node = 0
\* for every grounded node, the node named "0".
C16_GroundConstraint ==
    call = "expressions_for_potential" =>
        \A node \in NodeSet(net.val) :
            node.name = <<"0">> =>
                /\ ret.ok
                /\ \E i \in DOMAIN ret.val :
                      ret.val[i].formula
                        = [terms |-> <<[node_potential |-> NodePotential(node),
                                        sign |-> POS_ONE]>>,
                           expr |-> ZERO]

\* == on floats: a NaN equals nothing.
FloatEq(a, b) == ~IsNaN(a) /\ ~IsNaN(b) /\ a = b

\* eq is I_edge = G*E_high - G*E_low: the single current of an edge on the
\* left; on the right two node-potential terms, on the nodes bound to the
\* class's port_high and port_low, with constant coefficients G and -G.
IsOhmOverPotentials(eq) ==
    /\ Len(eq.left) = 1
    /\ eq.left[1].element.kind = "EdgeCurrent"
    /\ Len(eq.right) = 2
    /\ \A p \in {1, 2} : eq.right[p].k.type = "Constant"
    /\ eq.right[1].element
         = NodePotential(NodeOfPort(eq.left[1].element.edge.component,
                                    eq.left[1].element.edge.component.clazz.port_high))
    /\ eq.right[2].element
         = NodePotential(NodeOfPort(eq.left[1].element.edge.component,
                                    eq.left[1].element.edge.component.clazz.port_low))
    /\ FloatEq(eq.right[2].k.value, RNeg(eq.right[1].k.value))

\* C17: node_potential_substituted_ohms_law (Ohm <<= KVL) returns the Ohm
\* equations, every one of the form I_edge = G*E_high - G*E_low; no
\* EdgeVoltage remains.
C17_OhmOverNodePotentials ==
    call = "node_potential_substituted_ohms_law" =>
        /\ ret.ok
        /\ \A k \in DOMAIN ret.val : IsOhmOverPotentials(ret.val[k])

\* C18: substituted_kcl yields one equation for every node, and the only
\* variables of the equation are node potentials.
C18_SubstitutedKclOverPotentials ==
    call = "substituted_kcl" =>
        /\ ret.ok
        /\ Len(ret.val) = Cardinality(NodeSet(net.val))
        /\ \A t \in TermsOf(ret.val) : t.element.kind = "NodePotential"

\* The sum of the constant coefficients a side has on node potentials.
RECURSIVE PotentialCoefficients(_)
PotentialCoefficients(terms) ==
    IF Len(terms) = 0 THEN RZero
    ELSE RAdd(IF Head(terms).element.kind = "NodePotential" THEN Head(terms).k.value
              ELSE RZero,
              PotentialCoefficients(Tail(terms)))

\* C19: in every equation substituted_kcl yields the coefficients of the
\* node potentials sum to zero.
C19_PotentialCoefficientsSumToZero ==
    call = "substituted_kcl" =>
        /\ ret.ok
        /\ \A k \in DOMAIN ret.val :
              FloatEq(PotentialCoefficients(ret.val[k].left \o ret.val[k].right), RZero)

\* C20: of the equations of substituted_kcl the total system holds all but
\* one, and the one dropped is that of the first node in sorted order.
C20_FirstNodeDropped ==
    call = "total_equations" =>
        /\ ret.ok
        /\ SubstitutedKcl(net.val).ok
        /\ Len(ret.val) = Len(Nodes(net.val)) - 1
        /\ ret.val = Tail(SubstitutedKcl(net.val).val)

(***************************************************************************)
(* Claims about the passes of the solver.                                  *)
(***************************************************************************)
\* The first row below i with a nonzero entry in column i.
FirstNonzeroBelow(M, i) ==
    CHOOSE j \in DOMAIN M :
        /\ j > i
        /\ M[j][i] # RZero
        /\ \A k \in DOMAIN M : (k > i /\ k < j) => M[k][i] = RZero

\* C21: when M[i,i] is zero and a row below i has a nonzero entry in column
\* i, the forward pass exchanges rows i and j, j the first such row: row i
\* holds the former row j, row j the former row i, every other row is
\* unchanged, and (i, j) is appended to the swap record.
C21_RowsExchanged ==
    [][(pc = "swap" /\ pc' = "eliminate") =>
          /\ mat'[row] = mat[FirstNonzeroBelow(mat, row)]
          /\ mat'[FirstNonzeroBelow(mat, row)] = mat[row]
          /\ \A r \in DOMAIN mat :
                r \notin {row, FirstNonzeroBelow(mat, row)} => mat'[r] = mat[r]
          /\ repl' = Append(repl, <<row, FirstNonzeroBelow(mat, row)>>)]_vars

\* C22: for every nonsingular A whose forward pass exchanges rows, solve
\* returns x with A * x = c.
C22_SwapsUndone ==
    (pc = "done" /\ Det(inA) # RZero /\ repl # <<>>) =>
        /\ out.ok
        /\ Len(out.val) = Len(inA)
        /\ IsSolution(inA, out.val, inC)

\* row with f times pivot_row subtracted
RowMinus(target, f, pivot_row) ==
    [k \in DOMAIN target |-> RSub(target[k], RMul(f, pivot_row[k]))]

\* C23: a step of the forward pass on row i leaves the rows j <= i as they
\* are and subtracts (M[j,i] / M[i,i]) * row i from every row j > i, which
\* zeroes M[j,i]; the pass stops without modifying M when the strict lower
\* triangle is zero at the start of an iteration; and when the pass is over
\* the coefficient block is upper triangular.
C23_ForwardPassTriangular ==
    [][/\ (pc = "eliminate" /\ pc' = "forward") =>
            \A j \in DOMAIN mat :
                IF j <= row THEN mat'[j] = mat[j]
                ELSE /\ mat'[j] = RowMinus(mat[j], RDiv(mat[j][row], mat[row][row]), mat[row])
                     /\ mat'[j][row] = RZero
       /\ (pc = "forward" /\ pc' = "backward") =>
            /\ mat' = mat
            /\ \A j \in DOMAIN mat : \A k \in DOMAIN mat : k < j => mat[j][k] = RZero
       /\ (pc = "forward" /\ (\A j \in DOMAIN mat : \A k \in DOMAIN mat :
                                  k < j => mat[j][k] = RZero)) =>
            (pc' = "backward" /\ mat' = mat)]_vars

\* The forward pass is over after a step that changed a row below the pivot.
C23_Witness ==
    /\ pc = "backward"
    /\ Len(mat) = 3
    /\ mat # Concatenate(inA, inC)
    /\ repl = <<>>

\* The sum of x[k] * v[k] over the k from lo to hi.
RECURSIVE SumFrom(_, _, _, _)
SumFrom(x, v, lo, hi) ==
    IF lo > hi THEN RZero ELSE RAdd(RMul(x[lo], v[lo]), SumFrom(x, v, lo + 1, hi))

\* C24: the backward pass sets x[i] = (M[i,n] - sum over k > i of
\* x[k] * M[i,k]) / M[i,i], or 1 when that is NaN, for i from the last row
\* down to the first, and changes no other entry of x.
C24_BackwardSubstitution ==
    [][pc = "backward" =>
          /\ sol'[row] =
               (IF IsNaN(RDiv(RSub(mat[row][Len(mat) + 1],
                                   SumFrom(sol, mat[row], row + 1, Len(mat))),
                              mat[row][row]))
                THEN R(1)
                ELSE RDiv(RSub(mat[row][Len(mat) + 1],
                               SumFrom(sol, mat[row], row + 1, Len(mat))),
                          mat[row][row]))
          /\ \A k \in DOMAIN sol : k # row => sol'[k] = sol[k]
          /\ (row > 1 => row' = row - 1 /\ pc' = "backward")
          /\ (row = 1 => pc' # "backward")]_vars

\* The backward pass met 0 / 0 on a row that is not the last, and set the
\* unknown to 1.
C24_Witness ==
    /\ pc = "unswap"
    /\ repl = <<>>
    /\ \E k \in DOMAIN sol :
          /\ k < Len(sol)
          /\ mat[k][k] = RZero
          /\ sol[k] = R(1)
          /\ sol[Len(sol)] # RZero
          /\ mat[k][Len(sol)] # RZero

\* C25: for a singular system in which M[i,i] is zero and no row below i
\* has a nonzero entry in column i solve raises no error: it returns a
\* vector of length n.
C25_SingularReturnsVector ==
    (/\ pc = "done"
     /\ \E i \in DOMAIN mat :
           /\ mat[i][i] = RZero
           /\ \A j \in DOMAIN mat : j > i => mat[j][i] = RZero) =>
        /\ out.ok
        /\ Len(out.val) = Len(inA)

(***************************************************************************)
(* Claims about probes and about what a substitution changes.              *)
(***************************************************************************)
\* The edges a current probe names; the nodes a voltage probe names.
EdgesNamed(netlist, name) ==
    {Edge(netlist.components[c]) : c \in {d \in DOMAIN netlist.components :
                                             netlist.components[d].name = name}}

NodesNamed(netlist, name) == {node \in NodeSet(netlist) : node.name = name}

\* A probe that names an edge (a node, for a voltage probe) renders as the
\* name of that edge's current (that node's potential) variable, and a
\* current probe registers the edge in used_edge_currents; a probe that
\* names none fails.
ProbeRendered(netlist, probe, rendered) ==
    IF probe.type = "CurrentProbe"
    THEN IF EdgesNamed(netlist, probe.name) = {} THEN ~rendered.text.ok
         ELSE /\ rendered.text = Ok(<<"x", "_", "_", "i", "_">> \o Lower(probe.name))
              /\ \E i \in DOMAIN rendered.ctx.used_edge_currents :
                    /\ rendered.ctx.used_edge_currents[i].var.kind = "EdgeCurrent"
                    /\ rendered.ctx.used_edge_currents[i].var.edge
                         \in EdgesNamed(netlist, probe.name)
    ELSE IF NodesNamed(netlist, probe.name) = {} THEN ~rendered.text.ok
         ELSE rendered.text = Ok(<<"x", "_", "_", "e", "_">> \o Lower(probe.name))

\* C26: a current probe naming an edge renders as the edge's current
\* variable and registers the edge as used; a probe naming no edge (or node)
\* fails; and the formulator has, for the registered edges, the
\* node-potential-substituted Ohm equations it adds to the total system.
C26_ProbesRegisterAndEquationsAdded ==
    /\ call = "to_python" => ProbeRendered(net.val, ret.probe, ret.rendered)
    /\ call = "node_potential_substituted_ohms_law_equations" =>
          /\ ret.ok
          /\ \A k \in DOMAIN Edges(net.val) :
                \E i \in DOMAIN ret.val : ret.val[i].left[1].element = EdgeCurrent(Edges(net.val)[k])

\* The references a set holds.
Held(refs) == {refs[i] : i \in DOMAIN refs}

\* C27 as stated: dst <<= src changes only dst; the equations of src are as
\* they were before the call, and so are the equations of every other set.
C27_OnlyDstChanges ==
    before # None =>
        /\ Deref(heap, sets.src) = Deref(before.heap, sets.src)
        /\ Deref(heap, sets.other) = Deref(before.heap, sets.other)

\* C27: dst <<= src changes only the equation objects dst holds, in place:
\* no object is created or dropped, every object dst does not hold is as it
\* was before the call, and so are src and any other set that shares no
\* object with dst.
C27_OnlyObjectsOfDstChange ==
    before # None =>
        /\ DOMAIN heap = DOMAIN before.heap
        /\ \A id \in DOMAIN heap : id \notin Held(sets.dst) => heap[id] = before.heap[id]
        /\ \A name \in {"src", "other"} :
              Held(sets[name]) \cap Held(sets.dst) = {}
                  => Deref(heap, sets[name]) = Deref(before.heap, sets[name])

\* A call changed an object of dst while src holds another object only.
C27_Witness ==
    /\ before # None
    /\ heap # before.heap
    /\ sets.src # <<>>
    /\ Held(sets.src) \cap Held(sets.dst) = {}

====
